---- MODULE Spec2Model ----
(***************************************************************************)
(* Hydra gateway core: credential registry (api_key_service.py), rate      *)
(* limiter (rate_limiter.py), router (router_service.py) and the chat      *)
(* fallback loop (api/routes/chat.py), over a shared Redis store.          *)
(***************************************************************************)
EXTENDS Integers, Sequences, FiniteSets, TLC

(***************************************************************************)
(* Bounds of the model                                                     *)
(***************************************************************************)
\* number of raw API tokens (credentials) that exist in the world
NumKeys == 2
\* environment (admin / monitor / other request) operations interleaved with one run
MaxEnvOps == 1
\* number of midnights after the first one that the reset loop lives through
MaxDays == 1
\* number of tasks that call the registry on one credential at the same time
NumCallers == 2
\* number of credentials in the attempt-cap scenario
CapKeys == 5
\* number of credentials the router chooses among in the router specification
RouterKeys == 3
\* number of credentials in the model-blocking scenario
BlockKeys == 3
\* update_health calls in a row explored on one credential
MaxCalls == 7
\* update_health calls explored after a credential reached the disable threshold
MaxExtraErrors == 1
\* operations applied in a row to one stored rate window
MaxWindowOps == 2
\* half minutes the clock advances past the first instant of the rate-limiter runs
MaxTicks == 5
\* requests one client sends in a row on one rate window
MaxRequests == 6
\* requests in flight together on one rate window
NumTasks == 2

(***************************************************************************)
(* core/constants.py                                                       *)
(***************************************************************************)
GEMINI_3_FLASH == "gemini-3-flash-preview"
GEMINI_25_PRO == "gemini-2.5-pro"
GEMINI_25_FLASH == "gemini-2.5-flash"
GEMINI_25_FLASH_LITE == "gemini-2.5-flash-lite"
GEMINI_25_FLASH_IMAGE == "gemini-2.5-flash-image"
GEMINI_EMBEDDING == "gemini-embedding-001"

MODEL_PRIORITY == <<GEMINI_25_PRO, GEMINI_3_FLASH, GEMINI_25_FLASH, GEMINI_25_FLASH_LITE>>

IMAGE_MODEL_PRIORITY == <<GEMINI_25_FLASH_IMAGE>>

ALL_MODELS == MODEL_PRIORITY \o IMAGE_MODEL_PRIORITY \o <<GEMINI_EMBEDDING>>

Range(s) == {s[i] : i \in 1..Len(s)}

ALL_MODELS_SET == Range(ALL_MODELS)

MODEL_RATE_LIMITS ==
  [m \in ALL_MODELS_SET |->
     CASE m = GEMINI_3_FLASH        -> [rpm |-> 5,  rpd |-> 50,   tpm |-> 250000]
       [] m = GEMINI_25_PRO         -> [rpm |-> 5,  rpd |-> 100,  tpm |-> 250000]
       [] m = GEMINI_25_FLASH       -> [rpm |-> 15, rpd |-> 1500, tpm |-> 1000000]
       [] m = GEMINI_25_FLASH_IMAGE -> [rpm |-> 10, rpd |-> 25,   tpm |-> 250000]
       [] m = GEMINI_25_FLASH_LITE  -> [rpm |-> 15, rpd |-> 1000, tpm |-> 250000]
       [] m = GEMINI_EMBEDDING      -> [rpm |-> 15, rpd |-> 1500, tpm |-> 1000000]]

CAP_TEXT == "text"
CAP_THINKING == "thinking"
CAP_FUNCTION_CALLING == "function_calling"
CAP_SEARCH_GROUNDING == "search_grounding"
CAP_CODE_EXECUTION == "code_execution"
CAP_URL_CONTEXT == "url_context"
CAP_STRUCTURED_OUTPUT == "structured_output"
CAP_MULTIMODAL_INPUT == "multimodal_input"
CAP_IMAGE_GENERATION == "image_generation"
CAP_EMBEDDING == "embedding"

FullTextCaps ==
  {CAP_TEXT, CAP_THINKING, CAP_FUNCTION_CALLING, CAP_SEARCH_GROUNDING,
   CAP_CODE_EXECUTION, CAP_URL_CONTEXT, CAP_STRUCTURED_OUTPUT, CAP_MULTIMODAL_INPUT}

MODEL_CAPABILITIES ==
  [m \in ALL_MODELS_SET |->
     CASE m = GEMINI_25_FLASH_IMAGE -> {CAP_TEXT, CAP_IMAGE_GENERATION}
       [] m = GEMINI_EMBEDDING      -> {CAP_EMBEDDING}
       [] OTHER                     -> FullTextCaps]

HEALTH_SCORE_MAX == 100
HEALTH_SCORE_SUCCESS_DELTA == 5
HEALTH_SCORE_FAILURE_DELTA == -10
HEALTH_CONSECUTIVE_ERROR_DISABLE == 5

\* DEFAULT_HEALTH_WEIGHT = 0.4 and DEFAULT_CAPACITY_WEIGHT = 0.6, in tenths
HEALTH_WEIGHT_TENTHS == 4
CAPACITY_WEIGHT_TENTHS == 6

\* the sliding window of the rate limiter, in seconds (now - 60)
WINDOW_SECONDS == 60
\* _PT_OFFSET = timedelta(hours=-8), in seconds, and the length of a calendar day
PT_OFFSET_SECONDS == 28800
DAY_SECONDS == 86400

(***************************************************************************)
(* Small helpers: Python dict / set / min / max                            *)
(***************************************************************************)
Min(a, b) == IF a < b THEN a ELSE b
Max(a, b) == IF a > b THEN a ELSE b

\* d[k] = v on a dict (Redis HSET on a hash)
Put(d, k, v) == [x \in (DOMAIN d) \cup {k} |-> IF x = k THEN v ELSE d[x]]
\* del d[k] (Redis HDEL / DEL)
Del(d, k) == [x \in (DOMAIN d) \ {k} |-> d[x]]

EmptyDict == [x \in {} |-> 0]

RECURSIVE GCD(_, _)
GCD(a, b) == IF b = 0 THEN a ELSE GCD(b, a % b)
LCM(a, b) == (a * b) \div GCD(a, b)

RECURSIVE SumSeq(_)
SumSeq(s) == IF s = <<>> THEN 0 ELSE Head(s) + SumSeq(Tail(s))

\* the elements of a set of numbers, smallest first
AscendingOrder(S) ==
  CHOOSE f \in [1..Cardinality(S) -> S] : \A i, j \in DOMAIN f : i < j => f[i] < f[j]

\* all orders in which the fields of a Redis hash can be returned by HGETALL
Orders(S) == {f \in [1..Cardinality(S) -> S] : \A i, j \in DOMAIN f : f[i] = f[j] => i = j}

(***************************************************************************)
(* services/api_key_service.py: the credential registry.  The operations   *)
(* map the pair (apikeys hash, active_keys set) to its new value.          *)
(***************************************************************************)
\* SHA-256 of the raw token: tokens are 1..n, handles are a disjoint range
hash_key(api_key) == 100 + api_key

Reg(ak, act) == [apikeys |-> ak, active_keys |-> act]

\* APIKeyEntry(...) with the schema defaults
APIKeyEntry(email, available_models) ==
  [email |-> email, is_active |-> TRUE, health_score |-> 100,
   consecutive_errors |-> 0, available_models |-> available_models]

\* faulty variant: the credential is stored but not put into the active set
add_api_key_without_sadd(ak, act, api_key, email, available_models) ==
  Reg(Put(ak, hash_key(api_key), APIKeyEntry(email, available_models)), act)

add_api_key(ak, act, api_key, email, available_models) ==
  LET kh == hash_key(api_key) IN
  IF kh \in DOMAIN ak
  THEN LET existing == ak[kh]
           merged == [existing EXCEPT
                        !.available_models = existing.available_models \cup available_models,
                        !.email = email,
                        !.is_active = TRUE]
       IN Reg(Put(ak, kh, merged), act \cup {kh})
  ELSE Reg(Put(ak, kh, APIKeyEntry(email, available_models)), act \cup {kh})

\* the boolean that update_models returns
update_models_result(ak, key_hash, available_models) ==
  /\ key_hash \in DOMAIN ak
  /\ ak[key_hash].available_models /= available_models

\* faulty variant: the detected models are merged into the stored set
update_models_merging(ak, act, key_hash, available_models) ==
  IF update_models_result(ak, key_hash, available_models)
  THEN Reg([ak EXCEPT ![key_hash].available_models = @ \cup available_models], act)
  ELSE Reg(ak, act)

update_models(ak, act, key_hash, available_models) ==
  IF update_models_result(ak, key_hash, available_models)
  THEN Reg([ak EXCEPT ![key_hash].available_models = available_models], act)
  ELSE Reg(ak, act)

\* the boolean that remove_api_key returns (hdel > 0)
remove_api_key_result(ak, key_hash) == key_hash \in DOMAIN ak

\* faulty variant: the membership in the active set is kept
remove_api_key_keeping_membership(ak, act, key_hash) == Reg(Del(ak, key_hash), act)

remove_api_key(ak, act, key_hash) == Reg(Del(ak, key_hash), act \ {key_hash})

get_all_keys(ak) == ak

\* faulty variant: the is_active filter is missing
get_active_keys_unfiltered(all_keys) == all_keys

get_active_keys(all_keys) ==
  [kh \in {k \in DOMAIN all_keys : all_keys[k].is_active} |-> all_keys[kh]]

get_active_key_hashes(act) == act

\* faulty variant: a failure subtracts without the floor at 0
update_health_without_floor(ak, act, key_hash, success) ==
  IF key_hash \notin DOMAIN ak THEN Reg(ak, act)
  ELSE LET entry == ak[key_hash] IN
       IF success
       THEN Reg(Put(ak, key_hash,
                    [entry EXCEPT
                       !.health_score = Min(HEALTH_SCORE_MAX,
                                            entry.health_score + HEALTH_SCORE_SUCCESS_DELTA),
                       !.consecutive_errors = 0]),
                act)
       ELSE LET failed == [entry EXCEPT
                             !.health_score = entry.health_score + HEALTH_SCORE_FAILURE_DELTA,
                             !.consecutive_errors = entry.consecutive_errors + 1]
            IN IF failed.consecutive_errors >= HEALTH_CONSECUTIVE_ERROR_DISABLE
               THEN Reg(Put(ak, key_hash, [failed EXCEPT !.is_active = FALSE]),
                        act \ {key_hash})
               ELSE Reg(Put(ak, key_hash, failed), act)

\* faulty variant: a success leaves consecutive_errors as it is
update_health_without_reset(ak, act, key_hash, success) ==
  IF key_hash \notin DOMAIN ak THEN Reg(ak, act)
  ELSE LET entry == ak[key_hash] IN
       IF success
       THEN Reg(Put(ak, key_hash,
                    [entry EXCEPT
                       !.health_score = Min(HEALTH_SCORE_MAX,
                                            entry.health_score + HEALTH_SCORE_SUCCESS_DELTA)]),
                act)
       ELSE LET failed == [entry EXCEPT
                             !.health_score = Max(0, entry.health_score + HEALTH_SCORE_FAILURE_DELTA),
                             !.consecutive_errors = entry.consecutive_errors + 1]
            IN IF failed.consecutive_errors >= HEALTH_CONSECUTIVE_ERROR_DISABLE
               THEN Reg(Put(ak, key_hash, [failed EXCEPT !.is_active = FALSE]),
                        act \ {key_hash})
               ELSE Reg(Put(ak, key_hash, failed), act)

update_health(ak, act, key_hash, success) ==
  IF key_hash \notin DOMAIN ak THEN Reg(ak, act)
  ELSE LET entry == ak[key_hash] IN
       IF success
       THEN Reg(Put(ak, key_hash,
                    [entry EXCEPT
                       !.health_score = Min(HEALTH_SCORE_MAX,
                                            entry.health_score + HEALTH_SCORE_SUCCESS_DELTA),
                       !.consecutive_errors = 0]),
                act)
       ELSE LET failed == [entry EXCEPT
                             !.health_score = Max(0, entry.health_score + HEALTH_SCORE_FAILURE_DELTA),
                             !.consecutive_errors = entry.consecutive_errors + 1]
            IN IF failed.consecutive_errors >= HEALTH_CONSECUTIVE_ERROR_DISABLE
               THEN Reg(Put(ak, key_hash, [failed EXCEPT !.is_active = FALSE]),
                        act \ {key_hash})
               ELSE Reg(Put(ak, key_hash, failed), act)

\* the boolean that reactivate_key returns
reactivate_key_result(ak, key_hash) == key_hash \in DOMAIN ak

reactivate_key(ak, act, key_hash) ==
  IF key_hash \notin DOMAIN ak THEN Reg(ak, act)
  ELSE Reg(Put(ak, key_hash,
               [ak[key_hash] EXCEPT !.is_active = TRUE,
                                    !.health_score = HEALTH_SCORE_MAX,
                                    !.consecutive_errors = 0]),
           act \cup {key_hash})

(***************************************************************************)
(* services/rate_limiter.py.  ratelimit maps a (key_hash, model) pair to   *)
(* the Redis hash ratelimit:{key_hash}:{model}; a pair outside its domain  *)
(* is a Redis key that does not exist.  Time is in whole seconds.          *)
(***************************************************************************)
\* the default "" of raw.get("last_rpd_reset", "")
NoDate == -1

\* what raw.get(...) yields field by field on an empty HGETALL answer
EmptyRaw == [requests |-> <<>>, tokens |-> <<>>, rpd_count |-> 0, last_rpd_reset |-> NoDate]

\* r.hgetall(rkey)
Raw(rl, key_hash, model) ==
  IF <<key_hash, model>> \in DOMAIN rl THEN rl[<<key_hash, model>>] ELSE EmptyRaw

today_pacific(now) == (now - PT_OFFSET_SECONDS) \div DAY_SECONDS

\* [ts for ts in requests if ts > window_start]
RecentRequests(requests, window_start) ==
  SelectSeq(requests, LAMBDA ts : ts > window_start)

\* [e for e in token_entries if e["ts"] > window_start]
RecentTokenEntries(token_entries, window_start) ==
  SelectSeq(token_entries, LAMBDA e : e.ts > window_start)

\* sum(e["count"] for e in token_entries if e["ts"] > window_start)
RecentTokens(token_entries, window_start) ==
  LET recent == RecentTokenEntries(token_entries, window_start)
  IN SumSeq([i \in 1..Len(recent) |-> recent[i].count])

\* faulty variant: the requests-per-minute comparison is strict
check_rate_limit_rpm_strict(rl, key_hash, model, estimated_tokens, now) ==
  IF model \notin DOMAIN MODEL_RATE_LIMITS THEN [can |-> FALSE, reason |-> "unknown"]
  ELSE LET limits == MODEL_RATE_LIMITS[model]
           window_start == now - WINDOW_SECONDS
           raw == Raw(rl, key_hash, model)
           recent == RecentRequests(raw.requests, window_start)
           rpd_count == IF raw.last_rpd_reset /= today_pacific(now) THEN 0 ELSE raw.rpd_count
           recent_tokens == RecentTokens(raw.tokens, window_start)
       IN IF Len(recent) > limits.rpm THEN [can |-> FALSE, reason |-> "RPM"]
          ELSE IF rpd_count >= limits.rpd THEN [can |-> FALSE, reason |-> "RPD"]
          ELSE IF recent_tokens + estimated_tokens > limits.tpm
               THEN [can |-> FALSE, reason |-> "TPM"]
          ELSE [can |-> TRUE, reason |-> "None"]

\* faulty variant: the daily limit is tested before the per-minute limit
check_rate_limit_rpd_first(rl, key_hash, model, estimated_tokens, now) ==
  IF model \notin DOMAIN MODEL_RATE_LIMITS THEN [can |-> FALSE, reason |-> "unknown"]
  ELSE LET limits == MODEL_RATE_LIMITS[model]
           window_start == now - WINDOW_SECONDS
           raw == Raw(rl, key_hash, model)
           recent == RecentRequests(raw.requests, window_start)
           rpd_count == IF raw.last_rpd_reset /= today_pacific(now) THEN 0 ELSE raw.rpd_count
           recent_tokens == RecentTokens(raw.tokens, window_start)
       IN IF rpd_count >= limits.rpd THEN [can |-> FALSE, reason |-> "RPD"]
          ELSE IF Len(recent) >= limits.rpm THEN [can |-> FALSE, reason |-> "RPM"]
          ELSE IF recent_tokens + estimated_tokens > limits.tpm
               THEN [can |-> FALSE, reason |-> "TPM"]
          ELSE [can |-> TRUE, reason |-> "None"]

\* faulty variant: the tokens-per-minute limit is not tested
check_rate_limit_without_tpm(rl, key_hash, model, estimated_tokens, now) ==
  IF model \notin DOMAIN MODEL_RATE_LIMITS THEN [can |-> FALSE, reason |-> "unknown"]
  ELSE LET limits == MODEL_RATE_LIMITS[model]
           window_start == now - WINDOW_SECONDS
           raw == Raw(rl, key_hash, model)
           recent == RecentRequests(raw.requests, window_start)
           rpd_count == IF raw.last_rpd_reset /= today_pacific(now) THEN 0 ELSE raw.rpd_count
       IN IF Len(recent) >= limits.rpm THEN [can |-> FALSE, reason |-> "RPM"]
          ELSE IF rpd_count >= limits.rpd THEN [can |-> FALSE, reason |-> "RPD"]
          ELSE [can |-> TRUE, reason |-> "None"]

check_rate_limit(rl, key_hash, model, estimated_tokens, now) ==
  IF model \notin DOMAIN MODEL_RATE_LIMITS THEN [can |-> FALSE, reason |-> "unknown"]
  ELSE LET limits == MODEL_RATE_LIMITS[model]
           window_start == now - WINDOW_SECONDS
           raw == Raw(rl, key_hash, model)
           recent == RecentRequests(raw.requests, window_start)
           rpd_count == IF raw.last_rpd_reset /= today_pacific(now) THEN 0 ELSE raw.rpd_count
           recent_tokens == RecentTokens(raw.tokens, window_start)
       IN IF Len(recent) >= limits.rpm THEN [can |-> FALSE, reason |-> "RPM"]
          ELSE IF rpd_count >= limits.rpd THEN [can |-> FALSE, reason |-> "RPD"]
          ELSE IF recent_tokens + estimated_tokens > limits.tpm
               THEN [can |-> FALSE, reason |-> "TPM"]
          ELSE [can |-> TRUE, reason |-> "None"]

\* faulty variant: the stored daily count is kept across a change of date
record_request_pipeline_keeping_count(rl, key_hash, model, raw, tokens_used, at) ==
  Put(rl, <<key_hash, model>>,
      [requests |-> Append(raw.requests, at),
       tokens |-> Append(raw.tokens, [ts |-> at, count |-> tokens_used]),
       rpd_count |-> raw.rpd_count + 1,
       last_rpd_reset |-> today_pacific(at)])

\* record_request from its HGETALL answer on: raw is that answer, at the clock
\* reading taken before it; the pipeline writes the four fields at once
record_request_pipeline(rl, key_hash, model, raw, tokens_used, at) ==
  LET today == today_pacific(at)
      rpd_count == IF raw.last_rpd_reset /= today THEN 0 ELSE raw.rpd_count
  IN Put(rl, <<key_hash, model>>,
         [requests |-> Append(raw.requests, at),
          tokens |-> Append(raw.tokens, [ts |-> at, count |-> tokens_used]),
          rpd_count |-> rpd_count + 1,
          last_rpd_reset |-> today])

\* record_request with nothing between its read and its write
record_request(rl, key_hash, model, tokens_used, now) ==
  record_request_pipeline(rl, key_hash, model, Raw(rl, key_hash, model), tokens_used, now)

\* faulty variant: an entry exactly one window old is kept
cleanup_old_data_inclusive(rl, key_hash, model, now) ==
  IF <<key_hash, model>> \notin DOMAIN rl THEN rl
  ELSE LET raw == rl[<<key_hash, model>>]
           cutoff == now - WINDOW_SECONDS - 1
       IN Put(rl, <<key_hash, model>>,
              [raw EXCEPT !.requests = RecentRequests(raw.requests, cutoff),
                          !.tokens = RecentTokenEntries(raw.tokens, cutoff)])

\* cleanup_old_data: nothing is written when HGETALL answers empty; otherwise
\* only the fields requests and tokens are written
cleanup_old_data(rl, key_hash, model, now) ==
  IF <<key_hash, model>> \notin DOMAIN rl THEN rl
  ELSE LET raw == rl[<<key_hash, model>>]
           cutoff == now - WINDOW_SECONDS
       IN Put(rl, <<key_hash, model>>,
              [raw EXCEPT !.requests = RecentRequests(raw.requests, cutoff),
                          !.tokens = RecentTokenEntries(raw.tokens, cutoff)])

\* reset_rpd_all: HSET rpd_count "0" on every ratelimit:* key
reset_rpd_all(rl) == [w \in DOMAIN rl |-> [rl[w] EXCEPT !.rpd_count = 0]]

\* faulty variant: the stored daily count is reported whatever its date
get_usage_stats_stale(rl, key_hash, model, now) ==
  LET raw == Raw(rl, key_hash, model)
      window_start == now - WINDOW_SECONDS
      limits == IF model \in DOMAIN MODEL_RATE_LIMITS THEN MODEL_RATE_LIMITS[model]
                ELSE [rpm |-> 0, rpd |-> 0, tpm |-> 0]
  IN [rpm_used |-> Len(RecentRequests(raw.requests, window_start)),
      rpm_limit |-> limits.rpm,
      rpd_used |-> raw.rpd_count,
      rpd_limit |-> limits.rpd,
      tpm_used |-> RecentTokens(raw.tokens, window_start),
      tpm_limit |-> limits.tpm]

get_usage_stats(rl, key_hash, model, now) ==
  LET raw == Raw(rl, key_hash, model)
      window_start == now - WINDOW_SECONDS
      limits == IF model \in DOMAIN MODEL_RATE_LIMITS THEN MODEL_RATE_LIMITS[model]
                ELSE [rpm |-> 0, rpd |-> 0, tpm |-> 0]
  IN [rpm_used |-> Len(RecentRequests(raw.requests, window_start)),
      rpm_limit |-> limits.rpm,
      rpd_used |-> IF raw.last_rpd_reset = today_pacific(now) THEN raw.rpd_count ELSE 0,
      rpd_limit |-> limits.rpd,
      tpm_used |-> RecentTokens(raw.tokens, window_start),
      tpm_limit |-> limits.tpm]

(***************************************************************************)
(* services/router_service.py                                              *)
(***************************************************************************)
\* The common denominator of the three usage fractions and of the percent.
ScoreDen(usage) ==
  LCM(LCM(Max(usage.rpm_limit, 1), Max(usage.rpd_limit, 1)),
      LCM(Max(usage.tpm_limit, 1), 100))

\* faulty variant: usage raises the score
score_rewarding_usage(health, usage) ==
  LET D == ScoreDen(usage)
      used == usage.rpm_used * (D \div Max(usage.rpm_limit, 1))
              + usage.rpd_used * (D \div Max(usage.rpd_limit, 1))
              + usage.tpm_used * (D \div Max(usage.tpm_limit, 1))
  IN 3 * HEALTH_WEIGHT_TENTHS * health * (D \div 100)
     + CAPACITY_WEIGHT_TENTHS * (3 * D + used)

\* _score, as the exact rational it denotes, times 30 * ScoreDen(usage) / 100:
\*   score = health * 0.4 + (100 - (rpm_pct + rpd_pct + tpm_pct) / 3) * 0.6
\* The factor depends on the model's limits only, so scores of one model compare
\* as in the code.
score(health, usage) ==
  LET D == ScoreDen(usage)
      used == usage.rpm_used * (D \div Max(usage.rpm_limit, 1))
              + usage.rpd_used * (D \div Max(usage.rpd_limit, 1))
              + usage.tpm_used * (D \div Max(usage.tpm_limit, 1))
  IN 3 * HEALTH_WEIGHT_TENTHS * health * (D \div 100)
     + CAPACITY_WEIGHT_TENTHS * (3 * D - used)

SeqWithout(s, x) == SelectSeq(s, LAMBDA m : m /= x)

build_model_order(preferred, required_capabilities) ==
  LET base == IF CAP_IMAGE_GENERATION \in required_capabilities THEN IMAGE_MODEL_PRIORITY
              ELSE IF CAP_EMBEDDING \in required_capabilities THEN <<GEMINI_EMBEDDING>>
              ELSE MODEL_PRIORITY
  IN IF preferred \in DOMAIN MODEL_RATE_LIMITS
     THEN <<preferred>> \o SeqWithout(base, preferred)
     ELSE base

\* tuples (score, key_hash) as Python orders them
TupleGreater(a, b) == a[1] > b[1] \/ (a[1] = b[1] /\ a[2] > b[2])

\* faulty variant: scored.sort(), smallest tuple first
sort_ascending(scored) ==
  LET n == Len(scored)
      place(i) == 1 + Cardinality({j \in 1..n : TupleGreater(scored[i], scored[j])})
                    + Cardinality({j \in 1..(i - 1) :
                                     /\ ~TupleGreater(scored[j], scored[i])
                                     /\ ~TupleGreater(scored[i], scored[j])})
  IN [k \in 1..n |-> scored[CHOOSE i \in 1..n : place(i) = k]]

\* faulty variant: scored.sort(key=lambda t: t[0], reverse=True), which leaves
\* equal scores in the order of the dict
sort_by_score(scored) ==
  LET n == Len(scored)
      place(i) == 1 + Cardinality({j \in 1..n : scored[j][1] > scored[i][1]})
                    + Cardinality({j \in 1..(i - 1) : scored[j][1] = scored[i][1]})
  IN [k \in 1..n |-> scored[CHOOSE i \in 1..n : place(i) = k]]

\* scored.sort(reverse=True): a stable sort, largest tuple first.  The element at
\* index i lands behind every greater one and behind the equal ones before it.
sort_reverse(scored) ==
  LET n == Len(scored)
      place(i) == 1 + Cardinality({j \in 1..n : TupleGreater(scored[j], scored[i])})
                    + Cardinality({j \in 1..(i - 1) :
                                     /\ ~TupleGreater(scored[j], scored[i])
                                     /\ ~TupleGreater(scored[i], scored[j])})
  IN [k \in 1..n |-> scored[CHOOSE i \in 1..n : place(i) = k]]

\* faulty variant: exclude_pairs is not consulted
eligible_keys_without_exclude(active_keys, key_order, model, exclude) ==
  SelectSeq(key_order,
            LAMBDA kh : /\ kh \in DOMAIN active_keys
                        /\ model \in active_keys[kh].available_models)

\* the keys of `eligible`, in the order the dict iterates (the HGETALL order)
eligible_keys(active_keys, key_order, model, exclude) ==
  SelectSeq(key_order,
            LAMBDA kh : /\ kh \in DOMAIN active_keys
                        /\ model \in active_keys[kh].available_models
                        /\ <<kh, model>> \notin exclude)

\* the list `scored` built by the inner loop over eligible.items()
score_and_rank(keys, active_keys, rl, model, estimated_tokens, now) ==
  LET passing == SelectSeq(keys, LAMBDA kh :
                             check_rate_limit(rl, kh, model, estimated_tokens, now).can)
  IN [i \in 1..Len(passing) |->
        <<score(active_keys[passing[i]].health_score,
                get_usage_stats(rl, passing[i], model, now)),
          passing[i]>>]

\* raise AllKeysExhaustedError
Exhausted == [ok |-> FALSE, key_hash |-> 0, model |-> "none"]

\* faulty variant: every model is taken to have every capability
model_caps_unchecked(model) == FullTextCaps \cup {CAP_IMAGE_GENERATION, CAP_EMBEDDING}

model_caps(model) ==
  IF model \in DOMAIN MODEL_CAPABILITIES THEN MODEL_CAPABILITIES[model] ELSE {}

\* the loop `for model in models_to_try`, from the i-th model on
RECURSIVE select_loop(_, _, _, _, _, _, _, _, _, _)
select_loop(i, models_to_try, active_keys, key_order, rl, now, estimated_tokens, required_capabilities, exclude, blocked) ==
  IF i > Len(models_to_try) THEN Exhausted
  ELSE LET model == models_to_try[i]
           next == select_loop(i + 1, models_to_try, active_keys, key_order, rl, now,
                               estimated_tokens, required_capabilities, exclude, blocked)
           eligible == eligible_keys(active_keys, key_order, model, exclude)
           scored == score_and_rank(eligible, active_keys, rl, model, estimated_tokens, now)
       IN IF model \in blocked THEN next
          ELSE IF required_capabilities /= {}
                  /\ ~(required_capabilities \subseteq model_caps(model)) THEN next
          ELSE IF eligible = <<>> THEN next
          ELSE IF scored = <<>> THEN next
          ELSE [ok |-> TRUE, key_hash |-> sort_reverse(scored)[1][2], model |-> model]

\* all_keys / key_order: the answer of HGETALL apikeys and the order of its fields
\* (a hash of long values is a hash table: the order is that of its buckets)
select_best_key_and_model(all_keys, key_order, rl, now, preferred_model, estimated_tokens, required_capabilities, exclude_pairs, blocked_models) ==
  LET models_to_try == build_model_order(preferred_model, required_capabilities)
      active_keys == get_active_keys(all_keys)
  IN IF DOMAIN active_keys = {} THEN Exhausted
     ELSE select_loop(1, models_to_try, active_keys, key_order, rl, now,
                      estimated_tokens, required_capabilities, exclude_pairs, blocked_models)

(***************************************************************************)
(* State                                                                   *)
(***************************************************************************)
VARIABLES
  apikeys,          \* Redis hash "apikeys": key_hash -> APIKeyEntry
  apikeys_order,    \* the order in which HGETALL lists the fields of that hash
  active_keys,      \* Redis set "active_keys"
  plainkeys,        \* Redis hash "_plainkeys": the key hashes that have a raw token
  ratelimit,        \* Redis hashes ratelimit:{key_hash}:{model}
  now,              \* wall clock, seconds
  logs,             \* RequestLogEntry records appended for the current request
  op,               \* the registry call the last step executed, if it executed one
  pc,               \* position of the chat request in _generate_with_fallback
  preferred_model, estimated_tokens, required_caps,
  failed_pairs, failed_models, blocked_models, total_attempts,
  last_error,       \* the status of the last failed attempt ("none" before any)
  all_keys,         \* the answer of get_all_keys() inside the current select
  key_order,        \* the order in which that answer lists the keys
  selected,         \* (key_hash, model) returned by the router for this attempt
  returned,         \* the pairs the router returned during this request, in order
  invoked,          \* the pairs generate_content was called with during this request
  env_ops,          \* environment operations performed
  calls,            \* the success flags update_health was called with, in order
  tasks,            \* the asyncio tasks in flight (requests on one rate window, or
                    \* HealthMonitor._tasks): position and locals of each
  history,          \* the upstream invocations and the records made on that window
  probe_ok          \* the (key_hash, model) pairs the upstream answers 200 for (test_api_key)

store_vars == <<apikeys, apikeys_order, active_keys, plainkeys, ratelimit, now>>
run_vars == <<pc, preferred_model, estimated_tokens, required_caps, failed_pairs,
              failed_models, blocked_models, total_attempts, last_error, all_keys, key_order,
              selected, returned, invoked, logs>>
vars == <<apikeys, apikeys_order, active_keys, plainkeys, ratelimit, now, logs, op, pc,
          preferred_model, estimated_tokens, required_caps, failed_pairs,
          failed_models, blocked_models, total_attempts, last_error, all_keys,
          key_order, selected, returned, invoked, env_ops, calls, tasks, history, probe_ok>>

Tokens == 1..NumKeys
Handles == {hash_key(t) : t \in Tokens}

NoPair == <<>>
NoOp == <<"none">>

max_attempts == 20

\* 01:00 in the quota zone on day 1
StartOfTime == DAY_SECONDS + PT_OFFSET_SECONDS + 3600

\* failed_models.get(model, 0)
FailedCount(fm, model) == IF model \in DOMAIN fm THEN fm[model] ELSE 0

\* RequestLogEntry(...), the fields the core decides
\* (error: "429" or "other" for str(exc) of a GeminiAPIError, "none" on success)
RequestLogEntry(pair, success, error, fallback_count) ==
  [key_hash |-> pair[1], model |-> pair[2], success |-> success, error |-> error,
   fallback_count |-> fallback_count]

(***************************************************************************)
(* api/routes/chat.py: _generate_with_fallback, one action per await       *)
(***************************************************************************)
\* faulty variant: the number of attempts made, as in the body of the 429
fallback_count_of_attempts(attempts) == attempts

\* fallback_count=total_attempts - 1, in the log entries and in the metadata
fallback_count(attempts) == attempts - 1

\* the inputs of a request: (preferred model, required capabilities, estimated tokens)
RequestInputs ==
  {<<GEMINI_25_PRO, {}, 100>>,
   <<"unknown-model", {CAP_FUNCTION_CALLING}, 100>>}

StartRequest ==
  /\ pc = "idle"
  /\ \E inp \in RequestInputs :
       /\ preferred_model' = inp[1]
       /\ required_caps' = inp[2]
       /\ estimated_tokens' = inp[3]
  /\ failed_pairs' = {}
  /\ failed_models' = EmptyDict
  /\ blocked_models' = {}
  /\ total_attempts' = 0
  /\ returned' = <<>>
  /\ invoked' = <<>>
  /\ logs' = <<>>
  /\ pc' = "loop"
  /\ op' = NoOp
  /\ UNCHANGED <<store_vars, all_keys, key_order, selected, env_ops, calls, tasks, history, probe_ok>>
  /\ last_error' = "none"

\* the test of `while total_attempts < max_attempts`
\* faulty variant: the loop runs once more
while_condition_inclusive(attempts) == attempts <= max_attempts

while_condition(attempts) == attempts < max_attempts

\* the loop head.  True: total_attempts += 1 and the router reads the keys
\* (get_active_keys).  False: fall through to raise HTTPException(429, ...)
LoopHead ==
  /\ pc = "loop"
  /\ IF while_condition(total_attempts)
     THEN /\ total_attempts' = total_attempts + 1
          /\ all_keys' = get_all_keys(apikeys)
          /\ key_order' = apikeys_order
          /\ pc' = "select"
     ELSE /\ pc' = "exhausted"
          /\ UNCHANGED <<total_attempts, all_keys, key_order>>
  /\ selected' = NoPair
  /\ op' = NoOp
  /\ UNCHANGED <<store_vars, logs, preferred_model, estimated_tokens, required_caps,
                 failed_pairs, failed_models, blocked_models, returned, invoked, env_ops, calls, tasks, history, probe_ok>>
  /\ last_error' = last_error

\* the rest of select_best_key_and_model: rate checks, scoring, return or raise
RouterSelect ==
  /\ pc = "select"
  /\ LET r == select_best_key_and_model(all_keys, key_order, ratelimit, now,
                                        preferred_model, estimated_tokens, required_caps,
                                        failed_pairs, blocked_models)
     IN IF r.ok
        THEN /\ selected' = <<r.key_hash, r.model>>
             /\ returned' = Append(returned, <<r.key_hash, r.model>>)
             /\ pc' = "rawkey"
        ELSE /\ selected' = NoPair
             /\ returned' = returned
             /\ pc' = "exhausted"
  /\ all_keys' = EmptyDict
  /\ key_order' = <<>>
  /\ op' = NoOp
  /\ UNCHANGED <<store_vars, logs, preferred_model, estimated_tokens, required_caps,
                 failed_pairs, failed_models, blocked_models, total_attempts,
                 invoked, env_ops, calls, tasks, history, probe_ok>>
  /\ last_error' = last_error

\* api_key = await _get_raw_key(key_hash); if not api_key: failed_pairs.add(...); continue
GetRawKey ==
  /\ pc = "rawkey"
  /\ IF selected[1] \in plainkeys
     THEN /\ pc' = "invoke"
          /\ failed_pairs' = failed_pairs
     ELSE /\ pc' = "loop"
          /\ failed_pairs' = failed_pairs \cup {selected}
  /\ op' = NoOp
  /\ UNCHANGED <<store_vars, logs, preferred_model, estimated_tokens, required_caps,
                 failed_models, blocked_models, total_attempts, all_keys, key_order,
                 selected, returned, invoked, env_ops, calls, tasks, history, probe_ok>>
  /\ last_error' = last_error

\* a store call outside the try block raises (select, _get_raw_key, the except
\* handler): the exception leaves the function and its frame is gone
StoreErrorPropagates ==
  /\ pc \in {"select", "rawkey", "fail_health", "fail_log"}
  /\ pc' = "error"
  /\ preferred_model' = "none"
  /\ estimated_tokens' = 0
  /\ required_caps' = {}
  /\ failed_pairs' = {}
  /\ failed_models' = EmptyDict
  /\ blocked_models' = {}
  /\ total_attempts' = 0
  /\ all_keys' = EmptyDict
  /\ key_order' = <<>>
  /\ selected' = NoPair
  /\ returned' = <<>>
  /\ invoked' = <<>>
  /\ op' = NoOp
  /\ UNCHANGED <<store_vars, logs, env_ops, calls, tasks, history, probe_ok>>
  /\ last_error' = "none"

\* what every step after the select leaves alone
RunFrame == <<preferred_model, estimated_tokens, required_caps, total_attempts,
              all_keys, key_order, selected, returned, env_ops, calls, tasks, history, probe_ok>>

\* generate_content returns a result
UpstreamSuccess ==
  /\ pc = "invoke"
  /\ invoked' = Append(invoked, selected)
  /\ pc' = "record"
  /\ op' = NoOp
  /\ UNCHANGED <<store_vars, logs, failed_pairs, failed_models, blocked_models, RunFrame>>
  /\ last_error' = last_error

\* faulty variant: a model is blocked after three 429s rather than two
count_429_late(fm, blocked, model) ==
  LET n == FailedCount(fm, model) + 1
  IN [failed_models |-> Put(fm, model, n),
      blocked_models |-> IF n > 2 THEN blocked \cup {model} ELSE blocked]

\* faulty variant: the first 429 on a model blocks it
count_429_eager(fm, blocked, model) ==
  LET n == FailedCount(fm, model) + 1
  IN [failed_models |-> Put(fm, model, n),
      blocked_models |-> blocked \cup {model}]

\* failed_models[model] += 1 and the blocking rule of the 429 branch
count_429(fm, blocked, model) ==
  LET n == FailedCount(fm, model) + 1
  IN [failed_models |-> Put(fm, model, n),
      blocked_models |-> IF n >= 2 THEN blocked \cup {model} ELSE blocked]

\* faulty variant: a 429 goes on to the health update like any other status
Upstream429_penalised ==
  /\ pc = "invoke"
  /\ invoked' = Append(invoked, selected)
  /\ failed_pairs' = failed_pairs \cup {selected}
  /\ LET c == count_429(failed_models, blocked_models, selected[2])
     IN /\ failed_models' = c.failed_models
        /\ blocked_models' = c.blocked_models
  /\ pc' = "fail_health"
  /\ op' = NoOp
  /\ UNCHANGED <<store_vars, logs, RunFrame>>
  /\ last_error' = "429"

\* generate_content raises GeminiAPIError with status_code == 429
Upstream429 ==
  /\ pc = "invoke"
  /\ invoked' = Append(invoked, selected)
  /\ failed_pairs' = failed_pairs \cup {selected}
  /\ LET c == count_429(failed_models, blocked_models, selected[2])
     IN /\ failed_models' = c.failed_models
        /\ blocked_models' = c.blocked_models
  /\ pc' = "fail_log"
  /\ op' = NoOp
  /\ UNCHANGED <<store_vars, logs, RunFrame>>
  /\ last_error' = "429"

\* generate_content raises GeminiAPIError with another status
UpstreamError ==
  /\ pc = "invoke"
  /\ invoked' = Append(invoked, selected)
  /\ failed_pairs' = failed_pairs \cup {selected}
  /\ pc' = "fail_health"
  /\ op' = NoOp
  /\ UNCHANGED <<store_vars, logs, failed_models, blocked_models, RunFrame>>
  /\ last_error' = "other"

\* generate_content raises anything else (transport error, timeout)
UpstreamException ==
  /\ pc = "invoke"
  /\ invoked' = Append(invoked, selected)
  /\ failed_pairs' = failed_pairs \cup {selected}
  /\ pc' = "loop"
  /\ op' = NoOp
  /\ UNCHANGED <<store_vars, logs, failed_models, blocked_models, RunFrame>>
  /\ last_error' = "exception"

\* the tokens.total_tokens an upstream answer reports
ActualTokens == {150}

RecordRequest ==
  /\ pc = "record"
  /\ \E tokens_used \in ActualTokens :
       ratelimit' = record_request(ratelimit, selected[1], selected[2], tokens_used, now)
  /\ pc' = "health_ok"
  /\ op' = NoOp
  /\ UNCHANGED <<apikeys, apikeys_order, active_keys, plainkeys, now, logs, failed_pairs,
                 failed_models, blocked_models, invoked, RunFrame>>
  /\ last_error' = last_error

UpdateHealthSuccess ==
  /\ pc = "health_ok"
  /\ LET n == update_health(apikeys, active_keys, selected[1], TRUE)
     IN /\ apikeys' = n.apikeys
        /\ active_keys' = n.active_keys
  /\ op' = <<"update_health", selected[1], TRUE>>
  /\ pc' = "log_ok"
  /\ UNCHANGED <<apikeys_order, plainkeys, ratelimit, now, logs, failed_pairs, failed_models,
                 blocked_models, invoked, RunFrame>>
  /\ last_error' = last_error

LogSuccess ==
  /\ pc = "log_ok"
  /\ logs' = Append(logs, RequestLogEntry(selected, TRUE, "none", fallback_count(total_attempts)))
  /\ pc' = "served"
  /\ op' = NoOp
  /\ UNCHANGED <<store_vars, failed_pairs, failed_models, blocked_models, invoked,
                 RunFrame>>
  /\ last_error' = last_error

\* record_request, update_health or log_request raises inside the try block:
\* `except Exception` adds the pair to failed_pairs and continues
BookkeepingRaises ==
  /\ pc \in {"record", "health_ok", "log_ok"}
  /\ failed_pairs' = failed_pairs \cup {selected}
  /\ pc' = "loop"
  /\ op' = NoOp
  /\ UNCHANGED <<store_vars, logs, failed_models, blocked_models, invoked, RunFrame>>
  /\ last_error' = "exception"

UpdateHealthFailure ==
  /\ pc = "fail_health"
  /\ LET n == update_health(apikeys, active_keys, selected[1], FALSE)
     IN /\ apikeys' = n.apikeys
        /\ active_keys' = n.active_keys
  /\ op' = <<"update_health", selected[1], FALSE>>
  /\ pc' = "fail_log"
  /\ UNCHANGED <<apikeys_order, plainkeys, ratelimit, now, logs, failed_pairs, failed_models,
                 blocked_models, invoked, RunFrame>>
  /\ last_error' = last_error

\* faulty variant: the failure of the attempt is raised to the client
LogFailure_surfacing ==
  /\ pc = "fail_log"
  /\ logs' = Append(logs, RequestLogEntry(selected, FALSE, last_error, fallback_count(total_attempts)))
  /\ pc' = "exhausted"
  /\ op' = NoOp
  /\ UNCHANGED <<store_vars, failed_pairs, failed_models, blocked_models, invoked,
                 RunFrame>>
  /\ last_error' = last_error

LogFailure ==
  /\ pc = "fail_log"
  /\ logs' = Append(logs, RequestLogEntry(selected, FALSE, last_error, fallback_count(total_attempts)))
  /\ pc' = "loop"
  /\ op' = NoOp
  /\ UNCHANGED <<store_vars, failed_pairs, failed_models, blocked_models, invoked,
                 RunFrame>>
  /\ last_error' = last_error

RunStep ==
  \/ LoopHead
  \/ RouterSelect
  \/ GetRawKey
  \/ StoreErrorPropagates
  \/ UpstreamSuccess
  \/ Upstream429
  \/ UpstreamError
  \/ UpstreamException
  \/ RecordRequest
  \/ UpdateHealthSuccess
  \/ LogSuccess
  \/ BookkeepingRaises
  \/ UpdateHealthFailure
  \/ LogFailure

(***************************************************************************)
(* The other tasks that share the store: admin routes, the health monitor  *)
(* and other requests.  Each is one call on the registry or rate limiter.  *)
(***************************************************************************)
\* the model lists an upstream probe of a token can detect
DetectedModels ==
  {{GEMINI_25_PRO, GEMINI_25_FLASH_LITE}, {GEMINI_25_FLASH_LITE}}

Emails == {"a@x", "b@x"}

\* what a registry call leaves alone
RegistryFrame == <<ratelimit, now, run_vars>>

\* POST /admin/keys: add_api_key, then hset _plainkeys
AddApiKey(api_key, email, available_models) ==
  /\ LET n == add_api_key(apikeys, active_keys, api_key, email, available_models)
     IN /\ apikeys' = n.apikeys
        /\ active_keys' = n.active_keys
  /\ IF hash_key(api_key) \in DOMAIN apikeys
     THEN apikeys_order' = apikeys_order
     ELSE apikeys_order' \in Orders(DOMAIN apikeys')
  /\ plainkeys' = plainkeys \cup {hash_key(api_key)}
  /\ op' = <<"add_api_key", hash_key(api_key), available_models>>
  /\ UNCHANGED RegistryFrame

\* DELETE /admin/keys/remove/{key_hash}: remove_api_key; when it returns False
\* the route raises HTTPException(404), otherwise it goes on to hdel _plainkeys
RemoveApiKey(key_hash) ==
  /\ LET n == remove_api_key(apikeys, active_keys, key_hash)
     IN /\ apikeys' = n.apikeys
        /\ active_keys' = n.active_keys
  /\ apikeys_order' = SeqWithout(apikeys_order, key_hash)
  /\ plainkeys' = IF remove_api_key_result(apikeys, key_hash)
                  THEN plainkeys \ {key_hash} ELSE plainkeys
  /\ op' = <<"remove_api_key", key_hash, remove_api_key_result(apikeys, key_hash)>>
  /\ UNCHANGED RegistryFrame

UpdateModels(key_hash, available_models) ==
  /\ LET n == update_models(apikeys, active_keys, key_hash, available_models)
     IN /\ apikeys' = n.apikeys
        /\ active_keys' = n.active_keys
  /\ op' = <<"update_models", key_hash, available_models,
             update_models_result(apikeys, key_hash, available_models)>>
  /\ UNCHANGED <<apikeys_order, plainkeys, RegistryFrame>>

UpdateHealth(key_hash, success) ==
  /\ LET n == update_health(apikeys, active_keys, key_hash, success)
     IN /\ apikeys' = n.apikeys
        /\ active_keys' = n.active_keys
  /\ op' = <<"update_health", key_hash, success>>
  /\ UNCHANGED <<apikeys_order, plainkeys, RegistryFrame>>

ReactivateKey(key_hash) ==
  /\ LET n == reactivate_key(apikeys, active_keys, key_hash)
     IN /\ apikeys' = n.apikeys
        /\ active_keys' = n.active_keys
  /\ op' = <<"reactivate_key", key_hash>>
  /\ UNCHANGED <<apikeys_order, plainkeys, RegistryFrame>>

\* the credential the registry specification works on
RegistryToken == CHOOSE t \in Tokens : \A u \in Tokens : t <= u
RegistryTarget == hash_key(RegistryToken)

\* every call of the registry on one credential
RegistryFree == UNCHANGED <<env_ops, calls, tasks, history, probe_ok>>

RegAddApiKey ==
  /\ \E e \in Emails, ms \in DetectedModels : AddApiKey(RegistryToken, e, ms)
  /\ RegistryFree

RegRemoveApiKey == RemoveApiKey(RegistryTarget) /\ RegistryFree

RegUpdateModels ==
  /\ \E ms \in DetectedModels : UpdateModels(RegistryTarget, ms)
  /\ RegistryFree

RegUpdateHealth ==
  /\ RegistryTarget \in DOMAIN apikeys =>
       apikeys[RegistryTarget].consecutive_errors
         < HEALTH_CONSECUTIVE_ERROR_DISABLE + MaxExtraErrors
  /\ \E success \in BOOLEAN : UpdateHealth(RegistryTarget, success)
  /\ RegistryFree

RegReactivateKey == ReactivateKey(RegistryTarget) /\ RegistryFree

\* the calls of other tasks that can fall between two awaits of a request
EnvBudget ==
  /\ env_ops < MaxEnvOps
  /\ env_ops' = env_ops + 1
  /\ calls' = calls
  /\ UNCHANGED <<tasks, history, probe_ok>>

EnvUpdateHealth == EnvBudget /\ \E kh \in Handles, success \in BOOLEAN : UpdateHealth(kh, success)

EnvReactivateKey == EnvBudget /\ \E kh \in Handles : ReactivateKey(kh)

EnvRemoveApiKey == EnvBudget /\ \E kh \in Handles : RemoveApiKey(kh)

EnvAddApiKey == EnvBudget /\ \E t \in Tokens : AddApiKey(t, "a@x", {GEMINI_25_FLASH_LITE})

EnvUpdateModels == EnvBudget /\ \E kh \in Handles : UpdateModels(kh, {GEMINI_25_FLASH_LITE})

(***************************************************************************)
(* Specification of one chat request running against a live store          *)
(***************************************************************************)
\* a window that record_request filled n times, `age` seconds ago
FilledWindow(n, age, t) ==
  [requests |-> [i \in 1..n |-> t - age],
   tokens |-> [i \in 1..n |-> [ts |-> t - age, count |-> 150]],
   rpd_count |-> n,
   last_rpd_reset |-> today_pacific(t - age)]

\* credential records the registry can hold: fresh, one failure from being
\* disabled, and disabled by update_health
EntryStates(models) ==
  {[APIKeyEntry("a@x", models) EXCEPT !.health_score = h[1], !.consecutive_errors = h[2],
                                      !.is_active = h[3]] :
     h \in {<<100, 0, TRUE>>, <<60, 4, TRUE>>, <<50, 5, FALSE>>}}

\* stores in which at most one credential is not fresh
InitialStores(models) ==
  {[kh \in Handles |-> IF kh = k THEN e ELSE APIKeyEntry("a@x", models)] :
     k \in Handles, e \in EntryStates(models)}

ActiveSetOf(ak) == {kh \in DOMAIN ak : ak[kh].is_active}

RunIdle ==
  /\ pc = "idle"
  /\ preferred_model = "none"
  /\ estimated_tokens = 0
  /\ required_caps = {}
  /\ failed_pairs = {}
  /\ failed_models = EmptyDict
  /\ blocked_models = {}
  /\ total_attempts = 0
  /\ last_error = "none"
  /\ all_keys = EmptyDict
  /\ key_order = <<>>
  /\ selected = NoPair
  /\ returned = <<>>
  /\ invoked = <<>>
  /\ logs = <<>>

Init ==
  /\ apikeys \in InitialStores({GEMINI_25_PRO, GEMINI_25_FLASH_LITE})
  /\ apikeys_order = AscendingOrder(DOMAIN apikeys)
  /\ active_keys = ActiveSetOf(apikeys)
  /\ plainkeys \in {Handles, Handles \ {hash_key(NumKeys)}}
  /\ now = StartOfTime
  /\ ratelimit = EmptyDict
  /\ op = NoOp
  /\ env_ops = 0
  /\ calls = <<>>
  /\ tasks = <<>>
  /\ history = <<>>
  /\ probe_ok = {}
  /\ RunIdle

Next ==
  \/ StartRequest
  \/ RunStep
  \/ EnvUpdateHealth
  \/ EnvReactivateKey
  \/ EnvRemoveApiKey
  \/ EnvAddApiKey
  \/ EnvUpdateModels

Spec == Init /\ [][Next]_vars

(***************************************************************************)
(* Specification of the credential registry: every sequence of calls on    *)
(* one credential, next to a stored credential that no call names          *)
(***************************************************************************)
Bystander == hash_key(RegistryToken + 1)

RegistryInit ==
  /\ apikeys = Put(EmptyDict, Bystander, APIKeyEntry("b@x", {GEMINI_25_FLASH_LITE}))
  /\ apikeys_order = <<Bystander>>
  /\ active_keys = {Bystander}
  /\ plainkeys = {Bystander}
  /\ ratelimit = EmptyDict
  /\ now = StartOfTime
  /\ op = NoOp
  /\ env_ops = 0
  /\ calls = <<>>
  /\ tasks = <<>>
  /\ history = <<>>
  /\ probe_ok = {}
  /\ RunIdle

RegistryNext ==
  \/ RegAddApiKey
  \/ RegRemoveApiKey
  \/ RegUpdateModels
  \/ RegUpdateHealth
  \/ RegReactivateKey

SpecRegistry == RegistryInit /\ [][RegistryNext]_vars

(***************************************************************************)
(* Specification of health tracking: update_health alone, called any       *)
(* number of times on one active credential                                *)
(***************************************************************************)
HealthInit ==
  /\ \E h \in {100, 45} :
       apikeys = Put(EmptyDict, RegistryTarget,
                     [APIKeyEntry("a@x", {GEMINI_25_FLASH_LITE}) EXCEPT !.health_score = h])
  /\ apikeys_order = <<RegistryTarget>>
  /\ active_keys = {RegistryTarget}
  /\ plainkeys = {RegistryTarget}
  /\ ratelimit = EmptyDict
  /\ now = StartOfTime
  /\ op = NoOp
  /\ env_ops = 0
  /\ calls = <<>>
  /\ tasks = <<>>
  /\ history = <<>>
  /\ probe_ok = {}
  /\ RunIdle

HealthCall ==
  /\ Len(calls) < MaxCalls
  /\ \E success \in BOOLEAN :
       /\ UpdateHealth(RegistryTarget, success)
       /\ calls' = Append(calls, success)
  /\ UNCHANGED <<env_ops, tasks, history, probe_ok>>

SpecHealth == HealthInit /\ [][HealthCall]_vars

(***************************************************************************)
(* Specification of the attempt cap: more (credential, model) pairs than   *)
(* max_attempts, raw tokens missing for all credentials but the first      *)
(***************************************************************************)
TextAndImage == Range(MODEL_PRIORITY) \cup Range(IMAGE_MODEL_PRIORITY)

\* the state right after the setup code of _generate_with_fallback
RunStarted(preferred, caps, tokens) ==
  /\ pc = "loop"
  /\ preferred_model = preferred
  /\ estimated_tokens = tokens
  /\ required_caps = caps
  /\ failed_pairs = {}
  /\ failed_models = EmptyDict
  /\ blocked_models = {}
  /\ total_attempts = 0
  /\ last_error = "none"
  /\ all_keys = EmptyDict
  /\ key_order = <<>>
  /\ selected = NoPair
  /\ returned = <<>>
  /\ invoked = <<>>
  /\ logs = <<>>

FreshStore(n, models) == [kh \in {hash_key(t) : t \in 1..n} |-> APIKeyEntry("a@x", models)]

CapInit ==
  /\ apikeys = FreshStore(CapKeys, TextAndImage)
  /\ apikeys_order = AscendingOrder(DOMAIN apikeys)
  /\ active_keys = DOMAIN apikeys
  /\ plainkeys \in {{}, {hash_key(1)}}
  /\ ratelimit = EmptyDict
  /\ now = StartOfTime
  /\ op = NoOp
  /\ env_ops = 0
  /\ calls = <<>>
  /\ tasks = <<>>
  /\ history = <<>>
  /\ probe_ok = {}
  /\ RunStarted(GEMINI_25_FLASH_IMAGE, {}, 100)

SpecCap == CapInit /\ [][RunStep]_vars

(***************************************************************************)
(* Specification of model blocking: three credentials advertise the same   *)
(* two models and every attempt can fail in every way                      *)
(***************************************************************************)
BlockInit ==
  /\ apikeys = FreshStore(BlockKeys, {GEMINI_25_PRO, GEMINI_25_FLASH_LITE})
  /\ apikeys_order = AscendingOrder(DOMAIN apikeys)
  /\ active_keys = DOMAIN apikeys
  /\ plainkeys = DOMAIN apikeys
  /\ ratelimit = EmptyDict
  /\ now = StartOfTime
  /\ op = NoOp
  /\ env_ops = 0
  /\ calls = <<>>
  /\ tasks = <<>>
  /\ history = <<>>
  /\ probe_ok = {}
  /\ RunStarted(GEMINI_25_PRO, {}, 100)

SpecBlock == BlockInit /\ [][RunStep]_vars

(***************************************************************************)
(* Specification of the router: one select over every store, window state  *)
(* and argument list of a bounded family                                   *)
(***************************************************************************)
RouterHandles == {hash_key(t) : t \in 1..RouterKeys}

\* a fresh credential, a credential with one failure behind it that also
\* advertises the image model, and a credential update_health has disabled
RouterEntries ==
  {APIKeyEntry("a@x", {GEMINI_25_PRO, GEMINI_25_FLASH_LITE}),
   [APIKeyEntry("a@x", {GEMINI_25_FLASH_LITE, GEMINI_25_FLASH_IMAGE}) EXCEPT
      !.health_score = 90, !.consecutive_errors = 1],
   [APIKeyEntry("a@x", {GEMINI_25_PRO, GEMINI_25_FLASH_LITE}) EXCEPT
      !.health_score = 50, !.consecutive_errors = 5, !.is_active = FALSE]}

\* the window records one credential can have: none; two recent requests on
\* flash-lite; flash-lite at its RPM limit
WindowKinds == {"none", "lite_used", "lite_full"}

WindowsOf(kind, kh, t) ==
  CASE kind = "none" -> EmptyDict
    [] kind = "lite_used" ->
         Put(EmptyDict, <<kh, GEMINI_25_FLASH_LITE>>, FilledWindow(2, 10, t))
    [] kind = "lite_full" ->
         Put(EmptyDict, <<kh, GEMINI_25_FLASH_LITE>>,
             FilledWindow(MODEL_RATE_LIMITS[GEMINI_25_FLASH_LITE].rpm, 10, t))

\* the union of the window records chosen per credential
Windows(kinds, t) ==
  [p \in UNION {DOMAIN WindowsOf(kinds[kh], kh, t) : kh \in DOMAIN kinds} |->
     WindowsOf(kinds[p[1]], p[1], t)[p]]

\* the retry state of the fallback loop at a select: a first attempt; one
\* pair failed; the two first credentials answered 429 on pro, which blocks it
RetryStates ==
  {[pairs |-> {}, models |-> EmptyDict, blocked |-> {}],
   [pairs |-> {<<hash_key(1), GEMINI_25_FLASH_LITE>>}, models |-> EmptyDict, blocked |-> {}],
   [pairs |-> {<<hash_key(1), GEMINI_25_PRO>>, <<hash_key(2), GEMINI_25_PRO>>},
    models |-> Put(EmptyDict, GEMINI_25_PRO, {hash_key(1), hash_key(2)}),
    blocked |-> {GEMINI_25_PRO}]}

\* two orders in which HGETALL can list the fields: every two handles come in
\* both relative orders
ListingOrders(S) ==
  LET up == AscendingOrder(S)
  IN {up, [i \in DOMAIN up |-> up[Len(up) + 1 - i]]}

RouterInit ==
  /\ apikeys \in [RouterHandles -> RouterEntries]
  /\ apikeys_order \in ListingOrders(RouterHandles)
  /\ active_keys = ActiveSetOf(apikeys)
  /\ plainkeys = RouterHandles
  /\ now = StartOfTime
  /\ \E kinds \in [RouterHandles -> WindowKinds] : ratelimit = Windows(kinds, now)
  /\ op = NoOp
  /\ env_ops = 0
  /\ calls = <<>>
  /\ tasks = <<>>
  /\ history = <<>>
  /\ probe_ok = {}
  /\ pc = "loop"
  /\ preferred_model \in {GEMINI_25_FLASH_LITE, "unknown-model"}
  /\ required_caps \in {{}, {CAP_IMAGE_GENERATION}}
  /\ estimated_tokens = 100
  /\ \E r \in RetryStates :
       /\ failed_pairs = r.pairs
       /\ failed_models = r.models
       /\ blocked_models = r.blocked
       /\ total_attempts = Cardinality(r.pairs)
  /\ last_error = "none"
  /\ all_keys = EmptyDict
  /\ key_order = <<>>
  /\ selected = NoPair
  /\ returned = <<>>
  /\ invoked = <<>>
  /\ logs = <<>>

RouterNext ==
  \/ LoopHead
  \/ RouterSelect

SpecRouter == RouterInit /\ [][RouterNext]_vars

(***************************************************************************)
(* Specification of capacity-aware routing: one select between two active  *)
(* credentials of equal health that advertise the preferred model, over    *)
(* windows that differ in recent requests, requests of the day and tokens  *)
(***************************************************************************)
CredA == hash_key(1)
CredB == hash_key(2)

\* a window after `recent` requests 10 s ago and `earlier` requests 100 s ago,
\* each of `tokens` tokens
UsedWindow(recent, earlier, tokens, t) ==
  [requests |-> [i \in 1..(earlier + recent) |-> IF i <= earlier THEN t - 100 ELSE t - 10],
   tokens |-> [i \in 1..(earlier + recent) |->
                 [ts |-> IF i <= earlier THEN t - 100 ELSE t - 10, count |-> tokens]],
   rpd_count |-> earlier + recent,
   last_rpd_reset |-> today_pacific(t - 100)]

UsedWindows(t) ==
  {UsedWindow(u[1], u[2], u[3], t) : u \in {0, 2, 10} \X {0, 3} \X {150, 1000}}

CapacityInit ==
  /\ \E h \in {100, 60} :
       apikeys = [kh \in {CredA, CredB} |->
                    [APIKeyEntry("a@x", {GEMINI_25_PRO, GEMINI_25_FLASH_LITE})
                       EXCEPT !.health_score = h]]
  /\ apikeys_order \in ListingOrders({CredA, CredB})
  /\ active_keys = {CredA, CredB}
  /\ plainkeys = {CredA, CredB}
  /\ now = StartOfTime
  /\ op = NoOp
  /\ env_ops = 0
  /\ calls = <<>>
  /\ tasks = <<>>
  /\ history = <<>>
  /\ probe_ok = {}
  /\ \E m \in {GEMINI_25_PRO, GEMINI_25_FLASH_LITE} :
       /\ RunStarted(m, {}, 100)
       /\ \E wa, wb \in UsedWindows(now) :
            ratelimit = Put(Put(EmptyDict, <<CredA, m>>, wa), <<CredB, m>>, wb)

SpecCapacity == CapacityInit /\ [][RouterNext]_vars

(***************************************************************************)
(* Specification of the candidate ordering: one select for every preferred *)
(* model and capability set, on a credential that advertises every model   *)
(***************************************************************************)
OrderInit ==
  /\ apikeys = FreshStore(1, ALL_MODELS_SET)
  /\ apikeys_order = AscendingOrder(DOMAIN apikeys)
  /\ active_keys = DOMAIN apikeys
  /\ plainkeys = DOMAIN apikeys
  /\ ratelimit = EmptyDict
  /\ now = StartOfTime
  /\ op = NoOp
  /\ env_ops = 0
  /\ calls = <<>>
  /\ tasks = <<>>
  /\ history = <<>>
  /\ probe_ok = {}
  /\ \E preferred \in ALL_MODELS_SET \cup {"unknown-model"} :
       \E caps \in SUBSET {CAP_IMAGE_GENERATION, CAP_EMBEDDING, CAP_FUNCTION_CALLING, CAP_TEXT} :
         RunStarted(preferred, caps, 100)

SpecOrder == OrderInit /\ [][RouterNext]_vars

(***************************************************************************)
(* The rate window of one (credential, model) pair.  Earlier traffic is a   *)
(* list of events replayed through the limiter itself, so every stored      *)
(* window the specifications start from is one the limiter produced.        *)
(***************************************************************************)
LimKey == hash_key(1)
LimModel == GEMINI_25_FLASH_IMAGE
LimPair == <<LimKey, LimModel>>
LimLimits == MODEL_RATE_LIMITS[LimModel]

\* the first instant of day 1 in the quota zone
Midnight == DAY_SECONDS + PT_OFFSET_SECONDS
TickSeconds == WINDOW_SECONDS \div 2
FirstTime == Midnight - TickSeconds
LastTime == FirstTime + MaxTicks * TickSeconds

\* an entry of the history: a record made at ts for an upstream call that
\* returned at called, or a reset of the daily counts at ts
Ev(kind, ts, tokens, called) == [kind |-> kind, ts |-> ts, tokens |-> tokens, called |-> called]

\* n requests recorded at the instant ts
Burst(ts, n, tokens) == [i \in 1..n |-> Ev("record", ts, tokens, ts)]

\* the store after the records of one burst, one record_request after the
\* other (the comparison has each store evaluated before the next record)
RECURSIVE ReplayBurst(_, _)
ReplayBurst(rl, evs) ==
  IF evs = <<>> THEN rl
  ELSE LET next == record_request(rl, LimKey, LimModel, Head(evs).tokens, Head(evs).ts)
       IN IF next = rl THEN rl ELSE ReplayBurst(next, Tail(evs))

\* the store after the bursts of earlier traffic
RECURSIVE Replay(_, _)
Replay(rl, bursts) ==
  IF bursts = <<>> THEN rl
  ELSE LET next == ReplayBurst(rl, Head(bursts))
       IN IF next = rl /\ Head(bursts) /= <<>> THEN rl ELSE Replay(next, Tail(bursts))

\* every record of the burst follows a check_rate_limit that passed at its
\* instant (each store is evaluated before the next check reads it)
RECURSIVE LawfulBurst(_, _, _)
LawfulBurst(rl, evs, estimate) ==
  IF evs = <<>> THEN TRUE
  ELSE LET next == record_request(rl, LimKey, LimModel, Head(evs).tokens, Head(evs).ts)
       IN IF ~check_rate_limit(rl, LimKey, LimModel, estimate, Head(evs).ts).can \/ next = rl
          THEN FALSE
          ELSE LawfulBurst(next, Tail(evs), estimate)

RECURSIVE Lawful(_, _, _)
Lawful(rl, bursts, estimate) ==
  IF bursts = <<>> THEN TRUE
  ELSE /\ LawfulBurst(rl, Head(bursts), estimate)
       /\ Lawful(ReplayBurst(rl, Head(bursts)), Tail(bursts), estimate)

\* the events of the bursts in one list
RECURSIVE Flatten(_)
Flatten(bursts) == IF bursts = <<>> THEN <<>> ELSE Head(bursts) \o Flatten(Tail(bursts))

IdleTask == [pc |-> "idle", model |-> LimModel, tokens |-> 0, called |-> 0, raw |-> EmptyRaw, at |-> 0, n |-> 0]

\* what upstream reports as total_tokens for a request estimated at est tokens
UpstreamTokens(est) == {est + est \div 2} \cup (IF est > 1000 THEN {est - est \div 5} ELSE {})

LimFrame == <<apikeys, apikeys_order, active_keys, plainkeys, run_vars, calls, probe_ok>>

\* the quota-zone clock reads 00:00 or 00:01
ResetMinute(t) == (t - PT_OFFSET_SECONDS) % DAY_SECONDS < 2 * 60

\* _rpd_reset_loop has reset for the date of t
ResetDone(h, t) ==
  \E j \in DOMAIN h : h[j].kind = "reset" /\ today_pacific(h[j].ts) = today_pacific(t)

\* a client: rate_limiter.check_rate_limit(key_hash, model, estimated_tokens)
LimCheck(i, model) ==
  /\ tasks[i].pc = "idle"
  /\ tasks[i].n < MaxRequests
  /\ LET res == check_rate_limit(ratelimit, LimKey, model, estimated_tokens, now)
     IN /\ op' = <<"check_rate_limit", model, res.can, res.reason>>
        /\ tasks' = [tasks EXCEPT ![i] = [@ EXCEPT !.pc = IF res.can THEN "checked" ELSE "blocked",
                                                    !.model = model, !.n = @ + 1]]
  /\ UNCHANGED <<ratelimit, now, history, env_ops, LimFrame>>

\* gemini.generate_content(...) returns; its answer carries total_tokens
LimInvoke(i) ==
  /\ tasks[i].pc = "checked"
  /\ \E tokens_used \in UpstreamTokens(estimated_tokens) :
       tasks' = [tasks EXCEPT ![i] = [@ EXCEPT !.pc = "invoked", !.tokens = tokens_used,
                                                !.called = now]]
  /\ op' = NoOp
  /\ UNCHANGED <<ratelimit, now, history, env_ops, LimFrame>>

\* record_request up to its await r.hgetall(rkey): now and today are read first
LimRecordRead(i) ==
  /\ tasks[i].pc = "invoked"
  /\ tasks' = [tasks EXCEPT ![i] = [@ EXCEPT !.pc = "read", !.at = now,
                                              !.raw = Raw(ratelimit, LimKey, tasks[i].model)]]
  /\ op' = NoOp
  /\ UNCHANGED <<ratelimit, now, history, env_ops, LimFrame>>

\* record_request from there on: await pipe.execute()
LimRecordWrite(i) ==
  /\ tasks[i].pc = "read"
  /\ ratelimit' = record_request_pipeline(ratelimit, LimKey, tasks[i].model, tasks[i].raw,
                                          tasks[i].tokens, tasks[i].at)
  /\ history' = Append(history, Ev("record", tasks[i].at, tasks[i].tokens, tasks[i].called))
  /\ tasks' = [tasks EXCEPT ![i] = [@ EXCEPT !.pc = "done", !.raw = EmptyRaw]]
  /\ op' = <<"record_request", tasks[i].at>>
  /\ UNCHANGED <<now, env_ops, LimFrame>>

\* the client's next request
LimRestart(i) ==
  /\ tasks[i].pc \in {"done", "blocked"}
  /\ tasks' = [tasks EXCEPT ![i] = [IdleTask EXCEPT !.n = tasks[i].n]]
  /\ op' = NoOp
  /\ UNCHANGED <<ratelimit, now, history, env_ops, LimFrame>>

\* _cleanup_loop: rl.cleanup_old_data(kh, model)
Cleanup ==
  /\ ratelimit' = cleanup_old_data(ratelimit, LimKey, LimModel, now)
  /\ ratelimit' /= ratelimit
  /\ op' = <<"cleanup_old_data">>
  /\ UNCHANGED <<now, tasks, history, env_ops, LimFrame>>

\* _rpd_reset_loop wakes in the first two minutes of a quota-zone day
RpdReset ==
  /\ ResetMinute(now)
  /\ ~ResetDone(history, now)
  /\ ratelimit' = reset_rpd_all(ratelimit)
  /\ history' = Append(history, Ev("reset", now, 0, now))
  /\ op' = <<"reset_rpd_all">>
  /\ UNCHANGED <<now, tasks, env_ops, LimFrame>>

\* time passes
Tick ==
  /\ now + TickSeconds <= LastTime
  /\ now' = now + TickSeconds
  /\ op' = NoOp
  /\ UNCHANGED <<ratelimit, tasks, history, env_ops, LimFrame>>

LimiterInit(start, bursts, estimate, n) ==
  /\ apikeys = FreshStore(1, {LimModel})
  /\ apikeys_order = AscendingOrder(DOMAIN apikeys)
  /\ active_keys = DOMAIN apikeys
  /\ plainkeys = DOMAIN apikeys
  /\ ratelimit = Replay(EmptyDict, bursts)
  /\ now = start
  /\ op = NoOp
  /\ env_ops = 0
  /\ calls = <<>>
  /\ tasks = [i \in 1..n |-> IdleTask]
  /\ history = Flatten(bursts)
  /\ probe_ok = {}
  /\ pc = "idle"
  /\ preferred_model = LimModel
  /\ estimated_tokens = estimate
  /\ required_caps = {}
  /\ failed_pairs = {}
  /\ failed_models = EmptyDict
  /\ blocked_models = {}
  /\ total_attempts = 0
  /\ last_error = "none"
  /\ all_keys = EmptyDict
  /\ key_order = <<>>
  /\ selected = NoPair
  /\ returned = <<>>
  /\ invoked = <<>>
  /\ logs = <<>>

(***************************************************************************)
(* Specification of the limiter's calls on one stored window: up to         *)
(* MaxWindowOps calls in a row, on every window a family of earlier         *)
(* traffic leaves behind: half a minute after the quota-zone midnight on    *)
(* the traffic of the evening, and two minutes later on that of the day     *)
(***************************************************************************)
\* the instants of the earlier traffic
TrafficSlots ==
  <<Midnight - 150, Midnight - 90, Midnight - 30, Midnight, Midnight + 60, Midnight + 120>>
BurstSizes == {0, 5, 9, 10}

\* one burst per slot, of the size chosen for it
Bursts(sizes, tokens) ==
  [k \in DOMAIN TrafficSlots |->
     IF k \in DOMAIN sizes THEN Burst(TrafficSlots[k], sizes[k], tokens) ELSE <<>>]

\* the slots whose traffic a run starting at start looks back on: the evening
\* and the first instant of the day, or the day alone
SlotsBefore(start) ==
  {k \in DOMAIN TrafficSlots :
     /\ TrafficSlots[k] < start
     /\ start > Midnight + WINDOW_SECONDS => TrafficSlots[k] >= Midnight}

WindowStarts == {Midnight + 30, Midnight + 150}
WindowEstimates == {100, 30000}

\* a call of the limiter with estimated_tokens, and what it returned
WindowCheck(model) ==
  /\ LET res == check_rate_limit(ratelimit, LimKey, model, estimated_tokens, now)
     IN op' = <<"check_rate_limit", model, res.can, res.reason>>
  /\ UNCHANGED <<ratelimit, history>>

WindowUsage ==
  /\ op' = <<"get_usage_stats", get_usage_stats(ratelimit, LimKey, LimModel, now)>>
  /\ UNCHANGED <<ratelimit, history>>

WindowRecord ==
  /\ \E tokens_used \in UpstreamTokens(estimated_tokens) :
       ratelimit' = record_request(ratelimit, LimKey, LimModel, tokens_used, now)
  /\ op' = <<"record_request", now>>
  /\ UNCHANGED history

WindowCleanup ==
  /\ \E model \in {LimModel, GEMINI_25_FLASH} :
       /\ ratelimit' = cleanup_old_data(ratelimit, LimKey, model, now)
       /\ op' = <<"cleanup_old_data", model>>
  /\ UNCHANGED history

WindowReset ==
  /\ ResetMinute(now)
  /\ ~ResetDone(history, now)
  /\ ratelimit' = reset_rpd_all(ratelimit)
  /\ history' = Append(history, Ev("reset", now, 0, now))
  /\ op' = <<"reset_rpd_all">>

WindowCall == 
  \/ \E model \in {LimModel, "unknown-model"} : WindowCheck(model)
  \/ WindowUsage
  \/ WindowRecord
  \/ WindowCleanup
  \/ WindowReset

WindowNext ==
  /\ env_ops < MaxWindowOps
  /\ env_ops' = env_ops + 1
  /\ WindowCall
  /\ UNCHANGED <<now, tasks, LimFrame>>

WindowInit ==
  \E start \in WindowStarts, tokens \in {150, 25000}, estimate \in WindowEstimates :
    \E sizes \in [SlotsBefore(start) -> BurstSizes] :
      LET bursts == Bursts(sizes, tokens)
      IN /\ Lawful(EmptyDict, bursts, 100)
         /\ LimiterInit(start, bursts, estimate, 0)

SpecWindow == WindowInit /\ [][WindowNext]_vars

(***************************************************************************)
(* Specification of one client on one rate window: requests one after the  *)
(* other (check, upstream call, record), next to the cleanup loop, the      *)
(* daily reset loop and the clock, across the quota-zone midnight           *)
(***************************************************************************)
\* nothing yet; a day nearly spent; two full minutes right after midnight
EarlierTraffic ==
  { <<Midnight + WINDOW_SECONDS, <<>> >>,
    <<FirstTime, <<Burst(Midnight - 150, 10, 150), Burst(Midnight - 90, 10, 150),
                   Burst(Midnight - 30, 4, 150)>> >>,
    <<Midnight + 90, <<Burst(Midnight, 10, 150), Burst(Midnight + 60, 10, 150)>> >> }

LimiterNext ==
  \/ LimCheck(1, LimModel)
  \/ LimInvoke(1)
  \/ LimRecordRead(1)
  \/ LimRecordWrite(1)
  \/ LimRestart(1)
  \/ Cleanup
  \/ RpdReset
  \/ (tasks[1].pc \in {"idle", "checked"} /\ Tick)

SequentialInit == \E t \in EarlierTraffic : LimiterInit(t[1], t[2], 100, 1)

SpecLimiter == SequentialInit /\ [][LimiterNext]_vars

(***************************************************************************)
(* Specification of the token window: the same client with requests whose  *)
(* size is of the order of the tokens-per-minute limit                      *)
(***************************************************************************)
\* two fifths of the tokens-per-minute limit
LargeEstimate == (2 * LimLimits.tpm) \div 5

TokensInit == LimiterInit(Midnight + WINDOW_SECONDS, <<>>, LargeEstimate, 1)

SpecTokens == TokensInit /\ [][LimiterNext]_vars

(***************************************************************************)
(* Specification of concurrent requests: NumTasks requests in flight on a  *)
(* window that is at its per-minute limit or one request short of it, and   *)
(* that holds every earlier request; the clock runs for one more minute     *)
(***************************************************************************)
ConcurrentNext ==
  \/ \E i \in DOMAIN tasks : LimCheck(i, LimModel)
  \/ \E i \in DOMAIN tasks : LimInvoke(i)
  \/ \E i \in DOMAIN tasks : LimRecordRead(i)
  \/ \E i \in DOMAIN tasks : LimRecordWrite(i)
  \/ Cleanup
  \/ Tick

ConcurrentInit ==
  \E n \in {LimLimits.rpm - 1, LimLimits.rpm} :
    LET start == LastTime - WINDOW_SECONDS
    IN LimiterInit(start, <<Burst(start, n, 150)>>, 100, NumTasks)

SpecConcurrent == ConcurrentInit /\ [][ConcurrentNext]_vars

(***************************************************************************)
(* The same requests with the call of _cleanup_loop on their window taken  *)
(* await by await: cleanup_old_data reads the hash, filters the two lists  *)
(* it read and writes them with one pipeline.  The call in flight is the   *)
(* last of the tasks.                                                      *)
(***************************************************************************)
CleanupInFlight == \E i \in DOMAIN tasks : tasks[i].pc = "cleanup"

\* cleanup_old_data up to its await r.hgetall(rkey); it returns at once when
\* the hash does not exist
CleanupRead ==
  /\ ~CleanupInFlight
  /\ LimPair \in DOMAIN ratelimit
  /\ tasks' = Append(tasks, [IdleTask EXCEPT !.pc = "cleanup", !.at = now,
                                             !.raw = Raw(ratelimit, LimKey, LimModel)])
  /\ op' = <<"cleanup_old_data", "hgetall">>
  /\ UNCHANGED <<ratelimit, now, history, env_ops, LimFrame>>

\* cleanup_old_data from there on: the pipeline sets the fields requests and
\* tokens to what is left of the lists that were read
CleanupWrite ==
  /\ CleanupInFlight
  /\ LET c == tasks[Len(tasks)]
         cutoff == c.at - WINDOW_SECONDS
     IN ratelimit' = Put(ratelimit, LimPair,
                         [Raw(ratelimit, LimKey, LimModel) EXCEPT
                            !.requests = RecentRequests(c.raw.requests, cutoff),
                            !.tokens = RecentTokenEntries(c.raw.tokens, cutoff)])
  /\ tasks' = SubSeq(tasks, 1, Len(tasks) - 1)
  /\ op' = <<"cleanup_old_data", "execute">>
  /\ UNCHANGED <<now, history, env_ops, LimFrame>>

CleanupRaceNext ==
  \/ \E i \in DOMAIN tasks : LimCheck(i, LimModel)
  \/ \E i \in DOMAIN tasks : LimInvoke(i)
  \/ \E i \in DOMAIN tasks : LimRecordRead(i)
  \/ \E i \in DOMAIN tasks : LimRecordWrite(i)
  \/ CleanupRead
  \/ CleanupWrite
  \/ Tick

SpecCleanupRace == ConcurrentInit /\ [][CleanupRaceNext]_vars

(***************************************************************************)
(* api/routes/embed.py: create_embeddings, one action per await.  The      *)
(* whole handler is one try block around one select and one upstream call. *)
(***************************************************************************)
\* what no step of create_embeddings touches
EmbedLocals == <<preferred_model, estimated_tokens, required_caps, failed_pairs, failed_models, blocked_models, total_attempts, env_ops, calls, tasks, history, probe_ok>>

\* select_best_key_and_model reads the credentials (get_active_keys)
EmbedReadKeys ==
  /\ pc = "embed_start"
  /\ all_keys' = get_all_keys(apikeys)
  /\ key_order' = apikeys_order
  /\ pc' = "embed_select"
  /\ op' = NoOp
  /\ UNCHANGED <<store_vars, logs, last_error, selected, returned, invoked, EmbedLocals>>

\* the rest of select_best_key_and_model, called without exclude_pairs and
\* blocked_models; AllKeysExhaustedError becomes HTTPException(429)
EmbedSelect ==
  /\ pc = "embed_select"
  /\ LET r == select_best_key_and_model(all_keys, key_order, ratelimit, now,
                                        preferred_model, estimated_tokens, {CAP_EMBEDDING},
                                        {}, {})
     IN IF r.ok
        THEN /\ selected' = <<r.key_hash, r.model>>
             /\ returned' = Append(returned, <<r.key_hash, r.model>>)
             /\ pc' = "embed_rawkey"
        ELSE /\ selected' = NoPair
             /\ returned' = returned
             /\ pc' = "embed_429"
  /\ all_keys' = EmptyDict
  /\ key_order' = <<>>
  /\ op' = NoOp
  /\ UNCHANGED <<store_vars, logs, last_error, invoked, EmbedLocals>>

\* api_key = await _get_raw_key(key_hash); if not api_key: raise HTTPException(500, ...)
EmbedGetRawKey ==
  /\ pc = "embed_rawkey"
  /\ pc' = IF selected[1] \in plainkeys THEN "embed_invoke" ELSE "embed_500"
  /\ op' = NoOp
  /\ UNCHANGED <<store_vars, logs, last_error, all_keys, key_order, selected, returned,
                 invoked, EmbedLocals>>

\* embed_content returns the embeddings
EmbedSuccess ==
  /\ pc = "embed_invoke"
  /\ invoked' = Append(invoked, selected)
  /\ pc' = "embed_record"
  /\ op' = NoOp
  /\ UNCHANGED <<store_vars, logs, last_error, all_keys, key_order, selected, returned,
                 EmbedLocals>>

\* embed_content raises GeminiAPIError (any status other than 200):
\* `except GeminiAPIError` raises HTTPException(502, ...)
EmbedUpstreamError ==
  /\ pc = "embed_invoke"
  /\ invoked' = Append(invoked, selected)
  /\ last_error' \in {"429", "other"}
  /\ pc' = "embed_502"
  /\ op' = NoOp
  /\ UNCHANGED <<store_vars, logs, all_keys, key_order, selected, returned, EmbedLocals>>

\* embed_content raises anything else (transport error, timeout):
\* `except Exception` raises HTTPException(500, ...)
EmbedException ==
  /\ pc = "embed_invoke"
  /\ invoked' = Append(invoked, selected)
  /\ last_error' = "exception"
  /\ pc' = "embed_500"
  /\ op' = NoOp
  /\ UNCHANGED <<store_vars, logs, all_keys, key_order, selected, returned, EmbedLocals>>

\* record_request with the estimated token count of the texts
EmbedRecord ==
  /\ pc = "embed_record"
  /\ ratelimit' = record_request(ratelimit, selected[1], selected[2], estimated_tokens, now)
  /\ pc' = "embed_health"
  /\ op' = NoOp
  /\ UNCHANGED <<apikeys, apikeys_order, active_keys, plainkeys, now, logs, last_error,
                 all_keys, key_order, selected, returned, invoked, EmbedLocals>>

EmbedUpdateHealth ==
  /\ pc = "embed_health"
  /\ LET n == update_health(apikeys, active_keys, selected[1], TRUE)
     IN /\ apikeys' = n.apikeys
        /\ active_keys' = n.active_keys
  /\ op' = <<"update_health", selected[1], TRUE>>
  /\ pc' = "embed_log"
  /\ UNCHANGED <<apikeys_order, plainkeys, ratelimit, now, logs, last_error, all_keys,
                 key_order, selected, returned, invoked, EmbedLocals>>

\* log_request(RequestLogEntry(..., success=True)) with the default
\* fallback_count, then the response is built and returned
EmbedLog ==
  /\ pc = "embed_log"
  /\ logs' = Append(logs, RequestLogEntry(selected, TRUE, "none", 0))
  /\ pc' = "embed_served"
  /\ op' = NoOp
  /\ UNCHANGED <<store_vars, last_error, all_keys, key_order, selected, returned,
                 invoked, EmbedLocals>>

\* a store call of the handler raises: `except Exception` raises HTTPException(500, ...)
EmbedStoreError ==
  /\ pc \in {"embed_select", "embed_rawkey", "embed_record", "embed_health", "embed_log"}
  /\ pc' = "embed_500"
  /\ op' = NoOp
  /\ UNCHANGED <<store_vars, logs, last_error, all_keys, key_order, selected, returned,
                 invoked, EmbedLocals>>

EmbedStep ==
  \/ EmbedReadKeys
  \/ EmbedSelect
  \/ EmbedGetRawKey
  \/ EmbedSuccess
  \/ EmbedUpstreamError
  \/ EmbedException
  \/ EmbedRecord
  \/ EmbedUpdateHealth
  \/ EmbedLog
  \/ EmbedStoreError

(***************************************************************************)
(* Specification of one embedding request: two credentials that advertise  *)
(* the embedding model, one of them possibly worn, disabled, without raw   *)
(* token or at its per-minute limit                                        *)
(***************************************************************************)
\* OPENAI_MODEL_MAP.get(request.model, request.model): the embedding model (also
\* the image of every OpenAI embedding name), a catalog model without the
\* embedding capability, and a name the map and the catalog do not know
EmbedModels == {GEMINI_EMBEDDING, GEMINI_25_FLASH_LITE, "unknown-model"}

EmbedInit ==
  /\ apikeys \in InitialStores({GEMINI_EMBEDDING, GEMINI_25_FLASH_LITE})
  /\ apikeys_order = AscendingOrder(DOMAIN apikeys)
  /\ active_keys = ActiveSetOf(apikeys)
  /\ plainkeys \in {Handles, Handles \ {hash_key(NumKeys)}}
  /\ now = StartOfTime
  /\ ratelimit \in {EmptyDict,
                    Put(EmptyDict, <<hash_key(1), GEMINI_EMBEDDING>>,
                        FilledWindow(MODEL_RATE_LIMITS[GEMINI_EMBEDDING].rpm, 10, StartOfTime))}
  /\ op = NoOp
  /\ env_ops = 0
  /\ calls = <<>>
  /\ tasks = <<>>
  /\ history = <<>>
  /\ probe_ok = {}
  /\ pc = "embed_start"
  /\ preferred_model \in EmbedModels
  /\ estimated_tokens = 100
  /\ required_caps = {CAP_EMBEDDING}
  /\ failed_pairs = {}
  /\ failed_models = EmptyDict
  /\ blocked_models = {}
  /\ total_attempts = 0
  /\ last_error = "none"
  /\ all_keys = EmptyDict
  /\ key_order = <<>>
  /\ selected = NoPair
  /\ returned = <<>>
  /\ invoked = <<>>
  /\ logs = <<>>

SpecEmbed == EmbedInit /\ [][EmbedStep]_vars

(***************************************************************************)
(* services/health_monitor.py.  HealthMonitor.start() creates four asyncio *)
(* tasks, one per loop; tasks holds HealthMonitor._tasks.  Every loop is   *)
(*   while True: try: await sleep(..); body                                *)
(*               except CancelledError: break                              *)
(*               except Exception: logger.error(..)                        *)
(* A task is at "sleep" (awaiting asyncio.sleep), at "run" (awaiting a     *)
(* store or upstream call of its body) or "exited".  CancelledError is a   *)
(* BaseException (the annotations list[str] of models/schemas.py need      *)
(* Python 3.9), so no `except Exception` of a body swallows a cancel.      *)
(***************************************************************************)
LoopNames == <<"health_check", "rate_limit_cleanup", "rpd_reset", "model_redetect">>

LoopTask(name) == [name |-> name, pc |-> "sleep", cancel |-> FALSE, last_reset_date |-> NoDate]

\* the index in _tasks of the loop called name
LoopOf(name) == CHOOSE i \in DOMAIN LoopNames : LoopNames[i] = name

MonitorFrame == <<run_vars, calls, probe_ok>>

\* gemini_client.test_api_key: the status of the probe is 200; any exception
\* of the request makes it False
test_api_key(ok, key_hash, model) == <<key_hash, model>> \in ok

\* the models _health_loop probes: entry.available_models or MODEL_PRIORITY[:2]
probe_models(entry) ==
  IF entry.available_models = {} THEN {MODEL_PRIORITY[1], MODEL_PRIORITY[2]}
  ELSE entry.available_models

\* faulty variant: a disabled credential is reactivated without a probe
probe_succeeds_unprobed(ok, key_hash, entry) == TRUE

\* the inner for of _health_loop reaches its reactivate_key
probe_succeeds(ok, key_hash, entry) ==
  \E model \in probe_models(entry) : test_api_key(ok, key_hash, model)

\* the body of _health_loop over the disabled credentials, in listing order
RECURSIVE health_check(_, _, _, _, _)
health_check(disabled, ak, act, plain, ok) ==
  IF disabled = <<>> THEN Reg(ak, act)
  ELSE LET kh == Head(disabled)
           n == IF kh \in plain /\ probe_succeeds(ok, kh, ak[kh])
                THEN reactivate_key(ak, act, kh)
                ELSE Reg(ak, act)
       IN health_check(Tail(disabled), n.apikeys, n.active_keys, plain, ok)

\* gemini_client.detect_available_models: the models of the known list that
\* models.list returned; when models.list returned nothing (an error status,
\* an exception or an empty list, three times) the models whose
\* generateContent probe answers 200
detect_available_models(listed, models, ok, key_hash) ==
  IF listed /= {} THEN {m \in models : m \in listed}
  ELSE {m \in models : test_api_key(ok, key_hash, m)}

\* the body of _model_redetect_loop over the active credentials; listed maps
\* a credential to the list models.list returns for its token
RECURSIVE model_redetect(_, _, _, _, _, _)
model_redetect(active, ak, act, plain, listed, ok) ==
  IF active = <<>> THEN Reg(ak, act)
  ELSE LET kh == Head(active)
           detected == detect_available_models(listed[kh], ALL_MODELS_SET, ok, kh)
           n == IF kh \in plain /\ detected /= {}
                THEN update_models(ak, act, kh, detected)
                ELSE Reg(ak, act)
       IN model_redetect(Tail(active), n.apikeys, n.active_keys, plain, listed, ok)

\* the body of _cleanup_loop: cleanup_old_data on every advertised model of
\* every active credential
rate_limit_cleanup(rl, ak, t) ==
  [w \in DOMAIN rl |->
     IF w[1] \in DOMAIN get_active_keys(ak) /\ w[2] \in ak[w[1]].available_models
     THEN cleanup_old_data(rl, w[1], w[2], t)[w]
     ELSE rl[w]]

\* HealthMonitor.start(), called once by the lifespan of the application;
\* history holds the resets of this run of the monitor
MonitorStart ==
  /\ tasks = <<>>
  /\ tasks' = [i \in DOMAIN LoopNames |-> LoopTask(LoopNames[i])]
  /\ history' = <<>>
  /\ op' = <<"start">>
  /\ UNCHANGED <<apikeys, apikeys_order, active_keys, plainkeys, ratelimit, now, env_ops, MonitorFrame>>

\* asyncio.sleep returns in the task of a loop
LoopWake(i) ==
  /\ i \in DOMAIN tasks
  /\ tasks[i].pc = "sleep"
  /\ ~tasks[i].cancel
  /\ tasks' = [tasks EXCEPT ![i].pc = "run"]
  /\ op' = <<"wake", tasks[i].name>>
  /\ UNCHANGED <<apikeys, apikeys_order, active_keys, plainkeys, ratelimit, now, env_ops, history, MonitorFrame>>

\* the loop called name is in its body and no cancel is pending on its task
InBody(name) ==
  /\ tasks /= <<>>
  /\ tasks[LoopOf(name)].pc = "run"
  /\ ~tasks[LoopOf(name)].cancel

\* one iteration of _health_loop
HealthIteration ==
  /\ InBody("health_check")
  /\ LET disabled == SelectSeq(apikeys_order, LAMBDA kh : ~get_all_keys(apikeys)[kh].is_active)
         n == health_check(disabled, apikeys, active_keys, plainkeys, probe_ok)
     IN /\ apikeys' = n.apikeys
        /\ active_keys' = n.active_keys
  /\ tasks' = [tasks EXCEPT ![LoopOf("health_check")].pc = "sleep"]
  /\ op' = <<"iteration", "health_check", ActiveSetOf(apikeys') \ ActiveSetOf(apikeys)>>
  /\ UNCHANGED <<apikeys_order, plainkeys, ratelimit, now, env_ops, history, MonitorFrame>>

\* what models.list can return for a token: nothing, models outside the known
\* catalog only, a strict subset of the advertised models along with such a
\* model, or more than is advertised
UpstreamLists ==
  {{}, {"gemini-1.0-pro"}, {GEMINI_25_FLASH_LITE, "gemini-1.0-pro"}, {GEMINI_25_PRO, GEMINI_25_FLASH_LITE}}

\* one iteration of _model_redetect_loop
RedetectIteration ==
  /\ InBody("model_redetect")
  /\ \E listed \in [Handles -> UpstreamLists] :
       LET active == SelectSeq(apikeys_order, LAMBDA kh : kh \in DOMAIN get_active_keys(apikeys))
           n == model_redetect(active, apikeys, active_keys, plainkeys, listed, probe_ok)
       IN /\ apikeys' = n.apikeys
          /\ active_keys' = n.active_keys
          /\ op' = <<"iteration", "model_redetect", listed>>
  /\ tasks' = [tasks EXCEPT ![LoopOf("model_redetect")].pc = "sleep"]
  /\ UNCHANGED <<apikeys_order, plainkeys, ratelimit, now, env_ops, history, MonitorFrame>>

\* one iteration of _cleanup_loop
CleanupIteration ==
  /\ InBody("rate_limit_cleanup")
  /\ ratelimit' = rate_limit_cleanup(ratelimit, apikeys, now)
  /\ tasks' = [tasks EXCEPT ![LoopOf("rate_limit_cleanup")].pc = "sleep"]
  /\ op' = <<"iteration", "rate_limit_cleanup">>
  /\ UNCHANGED <<apikeys, apikeys_order, active_keys, plainkeys, now, env_ops, history, MonitorFrame>>

\* faulty variant: the loop does not remember the date it reset on
ResetIteration_undated ==
  /\ InBody("rpd_reset")
  /\ LET i == LoopOf("rpd_reset")
     IN IF ResetMinute(now)
        THEN /\ ratelimit' = reset_rpd_all(ratelimit)
             /\ tasks' = [tasks EXCEPT ![i].pc = "sleep"]
             /\ history' = Append(history, Ev("reset", now, 0, now))
             /\ op' = <<"iteration", "rpd_reset", TRUE>>
        ELSE /\ ratelimit' = ratelimit
             /\ tasks' = [tasks EXCEPT ![i].pc = "sleep"]
             /\ history' = history
             /\ op' = <<"iteration", "rpd_reset", FALSE>>
  /\ UNCHANGED <<apikeys, apikeys_order, active_keys, plainkeys, now, env_ops, MonitorFrame>>

\* one iteration of _rpd_reset_loop; the third field of op tells whether it
\* invoked reset_rpd_all
ResetIteration ==
  /\ InBody("rpd_reset")
  /\ LET i == LoopOf("rpd_reset")
         pt_date == today_pacific(now)
     IN IF pt_date /= tasks[i].last_reset_date /\ ResetMinute(now)
        THEN /\ ratelimit' = reset_rpd_all(ratelimit)
             /\ tasks' = [tasks EXCEPT ![i].pc = "sleep", ![i].last_reset_date = pt_date]
             /\ history' = Append(history, Ev("reset", now, 0, now))
             /\ op' = <<"iteration", "rpd_reset", TRUE>>
        ELSE /\ ratelimit' = ratelimit
             /\ tasks' = [tasks EXCEPT ![i].pc = "sleep"]
             /\ history' = history
             /\ op' = <<"iteration", "rpd_reset", FALSE>>
  /\ UNCHANGED <<apikeys, apikeys_order, active_keys, plainkeys, now, env_ops, MonitorFrame>>

\* reset_rpd_all raises after it has zeroed the records of done (a store
\* error between two hset): last_reset_date is not assigned
ResetRaises ==
  /\ InBody("rpd_reset")
  /\ today_pacific(now) /= tasks[LoopOf("rpd_reset")].last_reset_date
  /\ ResetMinute(now)
  /\ \E done \in SUBSET DOMAIN ratelimit :
       /\ done /= DOMAIN ratelimit
       /\ ratelimit' = [w \in DOMAIN ratelimit |->
                          IF w \in done THEN reset_rpd_all(ratelimit)[w] ELSE ratelimit[w]]
  /\ tasks' = [tasks EXCEPT ![LoopOf("rpd_reset")].pc = "sleep"]
  /\ op' = <<"loop_error", "rpd_reset">>
  /\ UNCHANGED <<apikeys, apikeys_order, active_keys, plainkeys, now, env_ops, history, MonitorFrame>>

\* faulty variant: the try is around the loop, so an exception ends the loop
LoopRaises_ending(i) ==
  /\ i \in DOMAIN tasks
  /\ tasks[i].pc = "run"
  /\ ~tasks[i].cancel
  /\ tasks' = [tasks EXCEPT ![i].pc = "exited"]
  /\ op' = <<"loop_error", tasks[i].name>>
  /\ UNCHANGED <<apikeys, apikeys_order, active_keys, plainkeys, ratelimit, now, env_ops, history, MonitorFrame>>

\* a call of the body raises: `except Exception` logs it and the while goes on
LoopRaises(i) ==
  /\ i \in DOMAIN tasks
  /\ tasks[i].pc = "run"
  /\ ~tasks[i].cancel
  /\ tasks' = [tasks EXCEPT ![i].pc = "sleep"]
  /\ op' = <<"loop_error", tasks[i].name>>
  /\ UNCHANGED <<apikeys, apikeys_order, active_keys, plainkeys, ratelimit, now, env_ops, history, MonitorFrame>>

\* HealthMonitor.stop() up to its await: task.cancel() on every task
MonitorStop ==
  /\ tasks /= <<>>
  /\ \E i \in DOMAIN tasks : ~tasks[i].cancel
  /\ tasks' = [i \in DOMAIN tasks |-> [tasks[i] EXCEPT !.cancel = TRUE]]
  /\ op' = <<"stop">>
  /\ UNCHANGED <<apikeys, apikeys_order, active_keys, plainkeys, ratelimit, now, env_ops, history, MonitorFrame>>

\* CancelledError is thrown into the await the task is in: break
LoopCancelled(i) ==
  /\ i \in DOMAIN tasks
  /\ tasks[i].cancel
  /\ tasks[i].pc /= "exited"
  /\ tasks' = [tasks EXCEPT ![i].pc = "exited"]
  /\ op' = <<"cancelled", tasks[i].name>>
  /\ UNCHANGED <<apikeys, apikeys_order, active_keys, plainkeys, ratelimit, now, env_ops, history, MonitorFrame>>

\* the gather of stop() returns and _tasks is cleared
MonitorStopped ==
  /\ tasks /= <<>>
  /\ \A i \in DOMAIN tasks : tasks[i].cancel /\ tasks[i].pc = "exited"
  /\ tasks' = <<>>
  /\ op' = <<"stopped">>
  /\ UNCHANGED <<apikeys, apikeys_order, active_keys, plainkeys, ratelimit, now, env_ops, history, MonitorFrame>>

MonitorNext ==
  \/ MonitorStart
  \/ \E i \in DOMAIN LoopNames : LoopWake(i)
  \/ HealthIteration
  \/ RedetectIteration
  \/ CleanupIteration
  \/ ResetIteration
  \/ ResetRaises
  \/ \E i \in DOMAIN LoopNames : LoopRaises(i)
  \/ MonitorStop
  \/ \E i \in DOMAIN LoopNames : LoopCancelled(i)
  \/ MonitorStopped

\* what the upstream answers to the probes: nothing, one advertised model of
\* the first credential, or everything
ProbeAnswers ==
  {{}, {<<hash_key(1), GEMINI_25_FLASH_LITE>>}, Handles \X Range(MODEL_PRIORITY)}

\* the stores the monitor starts on: every credential fresh, or the first one
\* disabled by update_health, advertising one model or none
MonitorStores ==
  {[kh \in Handles |-> IF kh = hash_key(1) THEN e ELSE APIKeyEntry("a@x", {GEMINI_25_FLASH_LITE})] :
     e \in {APIKeyEntry("a@x", {GEMINI_25_FLASH_LITE}),
            [APIKeyEntry("a@x", {GEMINI_25_FLASH_LITE}) EXCEPT !.health_score = 50, !.consecutive_errors = 5, !.is_active = FALSE],
            [APIKeyEntry("a@x", {}) EXCEPT !.health_score = 50, !.consecutive_errors = 5, !.is_active = FALSE]}}

\* the monitor is constructed (no task yet); a raw token may be missing and
\* one window is stale
MonitorInit ==
  /\ apikeys \in MonitorStores
  /\ apikeys_order = [i \in 1..NumKeys |-> hash_key(i)]
  /\ active_keys = ActiveSetOf(apikeys)
  /\ plainkeys \in {Handles, Handles \ {hash_key(1)}}
  /\ now = Midnight + 30
  /\ ratelimit = Put(EmptyDict, <<hash_key(1), GEMINI_25_FLASH_LITE>>,
                     FilledWindow(2, 2 * WINDOW_SECONDS, now))
  /\ probe_ok \in ProbeAnswers
  /\ op = NoOp
  /\ env_ops = 0
  /\ calls = <<>>
  /\ tasks = <<>>
  /\ history = <<>>
  /\ logs = <<>>
  /\ RunIdle

SpecMonitor == MonitorInit /\ [][MonitorNext]_vars

\* asyncio runs every task that is ready: a sleep that is over returns, a
\* cancelled task gets its CancelledError, the gather of stop() returns; and
\* the store does not fail the recovery iteration for ever
MonitorFairness ==
  /\ \A i \in DOMAIN LoopNames : WF_vars(LoopWake(i)) /\ WF_vars(LoopCancelled(i))
  /\ WF_vars(MonitorStopped)
  /\ SF_vars(HealthIteration)

SpecMonitorFair == MonitorInit /\ [][MonitorNext]_vars /\ MonitorFairness

(***************************************************************************)
(* The daily reset loop alone, over a clock that passes midnight of the    *)
(* quota zone, with traffic on the windows                                 *)
(***************************************************************************)
\* the instants the clock is read at: around each midnight of the quota zone
ResetInstants ==
  {Midnight + d * DAY_SECONDS + o : d \in 0..MaxDays, o \in {-60, 0, 60, 120, 180}}

\* time passes to the next of these instants
ResetTick ==
  /\ \E t \in ResetInstants :
       /\ t > now
       /\ \A u \in ResetInstants : u > now => t <= u
       /\ now' = t
  /\ op' = <<"tick">>
  /\ UNCHANGED <<apikeys, apikeys_order, active_keys, plainkeys, ratelimit, tasks, env_ops, history, MonitorFrame>>

\* a request is recorded on a window
ResetTraffic ==
  /\ env_ops < MaxEnvOps
  /\ env_ops' = env_ops + 1
  /\ \E kh \in Handles :
       ratelimit' = record_request(ratelimit, kh, GEMINI_25_FLASH_LITE, 150, now)
  /\ op' = <<"record_request", now>>
  /\ UNCHANGED <<apikeys, apikeys_order, active_keys, plainkeys, now, tasks, history, MonitorFrame>>

ResetNext ==
  \/ MonitorStart
  \/ LoopWake(LoopOf("rpd_reset"))
  \/ ResetIteration
  \/ ResetRaises
  \/ LoopRaises(LoopOf("rpd_reset"))
  \/ ResetTick
  \/ ResetTraffic

\* one minute before midnight, two windows written during the day
ResetInit ==
  /\ apikeys = [kh \in Handles |-> APIKeyEntry("a@x", {GEMINI_25_FLASH_LITE})]
  /\ apikeys_order = [i \in 1..NumKeys |-> hash_key(i)]
  /\ active_keys = Handles
  /\ plainkeys = Handles
  /\ now = Midnight - 60
  /\ ratelimit = [w \in {<<hash_key(1), GEMINI_25_FLASH_LITE>>, <<hash_key(1), GEMINI_25_PRO>>} |->
                    FilledWindow(2, 2 * WINDOW_SECONDS, now)]
  /\ probe_ok = {}
  /\ op = NoOp
  /\ env_ops = 0
  /\ calls = <<>>
  /\ tasks = <<>>
  /\ history = <<>>
  /\ logs = <<>>
  /\ RunIdle

SpecReset == ResetInit /\ [][ResetNext]_vars

(***************************************************************************)
(* Concurrent calls of the registry on one credential.  Every method of    *)
(* api_key_service.py awaits its store commands one by one (no pipeline,   *)
(* no MULTI, no lock), so the tasks of the event loop interleave between   *)
(* two commands of a method.  tasks holds the callers: the method, its     *)
(* arguments, the command it is about to send and the entry it computed.   *)
(***************************************************************************)
RegCalls ==
  {[call |-> "update_health", success |-> b, models |-> {}] : b \in BOOLEAN}
  \cup {[call |-> "update_models", success |-> FALSE, models |-> {GEMINI_25_PRO, GEMINI_25_FLASH_LITE}],
        [call |-> "reactivate_key", success |-> FALSE, models |-> {}],
        [call |-> "add_api_key", success |-> FALSE, models |-> {GEMINI_25_FLASH}],
        [call |-> "remove_api_key", success |-> FALSE, models |-> {}]}

\* the record the callers work on: one failure away from being disabled
RegInitial ==
  [APIKeyEntry("a@x", {GEMINI_25_FLASH_LITE}) EXCEPT !.health_score = 60, !.consecutive_errors = 4]

IdleCaller ==
  [call |-> "none", success |-> FALSE, models |-> {}, pc |-> "idle", entry |-> RegInitial]

RegFrame == <<plainkeys, ratelimit, now, run_vars, env_ops, calls, history, probe_ok>>

\* what the method would store for key_hash had it run alone on the store ak
RegComputed(c, ak, key_hash) ==
  IF c.call = "update_health" THEN update_health(ak, {key_hash}, key_hash, c.success)
  ELSE IF c.call = "update_models" THEN update_models(ak, {key_hash}, key_hash, c.models)
  ELSE IF c.call = "reactivate_key" THEN reactivate_key(ak, {key_hash}, key_hash)
  ELSE add_api_key(ak, {key_hash}, RegistryToken, "b@x", c.models)

\* the command that follows the hget of the method
AfterHget(c, ak, key_hash) ==
  IF c.call = "add_api_key" THEN "hset"
  ELSE IF key_hash \notin DOMAIN ak THEN "done"
  ELSE IF c.call = "update_health"
       THEN IF key_hash \in RegComputed(c, ak, key_hash).active_keys THEN "hset" ELSE "srem"
  ELSE IF c.call = "update_models"
       THEN IF update_models_result(ak, key_hash, c.models) THEN "hset" ELSE "done"
  ELSE "hset"

\* a task calls a method of the registry on the credential
RegCall(i, c) ==
  /\ tasks[i].pc = "idle"
  /\ tasks' = [tasks EXCEPT ![i] = [call |-> c.call, success |-> c.success, models |-> c.models,
                                     pc |-> IF c.call = "remove_api_key" THEN "hdel" ELSE "hget",
                                     entry |-> RegInitial]]
  /\ op' = <<c.call, i>>
  /\ UNCHANGED <<apikeys, apikeys_order, active_keys, RegFrame>>

\* r.hget(REDIS_KEY_APIKEYS, key_hash) and the computation on the parsed entry
RegHget(i) ==
  /\ tasks[i].pc = "hget"
  /\ LET c == tasks[i]
         n == RegComputed(c, apikeys, RegistryTarget)
     IN tasks' = [tasks EXCEPT ![i].pc = AfterHget(c, apikeys, RegistryTarget),
                               ![i].entry = IF RegistryTarget \in DOMAIN n.apikeys
                                            THEN n.apikeys[RegistryTarget] ELSE @]
  /\ op' = <<"hget", i>>
  /\ UNCHANGED <<apikeys, apikeys_order, active_keys, RegFrame>>

\* r.srem(REDIS_KEY_ACTIVE_KEYS, key_hash)
RegSrem(i) ==
  /\ tasks[i].pc = "srem"
  /\ active_keys' = active_keys \ {RegistryTarget}
  /\ tasks' = [tasks EXCEPT ![i].pc = IF tasks[i].call = "remove_api_key" THEN "done" ELSE "hset"]
  /\ op' = <<"srem", i>>
  /\ UNCHANGED <<apikeys, apikeys_order, RegFrame>>

\* r.hset(REDIS_KEY_APIKEYS, key_hash, entry.model_dump_json())
RegHset(i) ==
  /\ tasks[i].pc = "hset"
  /\ apikeys' = Put(apikeys, RegistryTarget, tasks[i].entry)
  /\ IF RegistryTarget \in DOMAIN apikeys
     THEN apikeys_order' = apikeys_order
     ELSE apikeys_order' \in Orders(DOMAIN apikeys')
  /\ tasks' = [tasks EXCEPT ![i].pc = IF tasks[i].call \in {"add_api_key", "reactivate_key"}
                                      THEN "sadd" ELSE "done"]
  /\ op' = <<"hset", i>>
  /\ UNCHANGED <<active_keys, RegFrame>>

\* r.sadd(REDIS_KEY_ACTIVE_KEYS, key_hash)
RegSadd(i) ==
  /\ tasks[i].pc = "sadd"
  /\ active_keys' = active_keys \cup {RegistryTarget}
  /\ tasks' = [tasks EXCEPT ![i].pc = "done"]
  /\ op' = <<"sadd", i>>
  /\ UNCHANGED <<apikeys, apikeys_order, RegFrame>>

\* r.hdel(REDIS_KEY_APIKEYS, key_hash)
RegHdel(i) ==
  /\ tasks[i].pc = "hdel"
  /\ apikeys' = Del(apikeys, RegistryTarget)
  /\ apikeys_order' = SeqWithout(apikeys_order, RegistryTarget)
  /\ tasks' = [tasks EXCEPT ![i].pc = "srem"]
  /\ op' = <<"hdel", i>>
  /\ UNCHANGED <<active_keys, RegFrame>>

RegConcurrentNext ==
  \E i \in 1..NumCallers :
    \/ \E c \in RegCalls : RegCall(i, c)
    \/ RegHget(i)
    \/ RegSrem(i)
    \/ RegHset(i)
    \/ RegSadd(i)
    \/ RegHdel(i)

RegConcurrentInit ==
  /\ apikeys = [kh \in Handles |-> IF kh = RegistryTarget THEN RegInitial
                                   ELSE APIKeyEntry("a@x", {GEMINI_25_FLASH_LITE})]
  /\ apikeys_order = [i \in 1..NumKeys |-> hash_key(i)]
  /\ active_keys = Handles
  /\ plainkeys = Handles
  /\ ratelimit = EmptyDict
  /\ now = StartOfTime
  /\ probe_ok = {}
  /\ op = NoOp
  /\ env_ops = 0
  /\ calls = <<>>
  /\ tasks = [i \in 1..NumCallers |-> IdleCaller]
  /\ history = <<>>
  /\ logs = <<>>
  /\ RunIdle

SpecRegistryConcurrent == RegConcurrentInit /\ [][RegConcurrentNext]_vars

(***************************************************************************)
(* Properties                                                              *)
(***************************************************************************)
NoRepeat(s) == \A i, j \in DOMAIN s : s[i] = s[j] => i = j

\* C1 (exclusion monotonicity): within one run of _generate_with_fallback no
\* (key_hash, model) pair is returned by the router twice and none is invoked
\* upstream twice, whatever the outcomes of the attempts are (429, another
\* upstream error, an unexpected exception, a missing raw token) and whatever
\* the registry calls of other clients do in between.
C1_NoPairTwice == NoRepeat(returned) /\ NoRepeat(invoked)

\* A run that went through every kind of failed attempt: four pairs returned,
\* one of them never invoked because its raw token is missing, a 429 logged
\* and the last attempt ended by an unexpected exception.
C1_Witness ==
  /\ Len(returned) = 4
  /\ Len(invoked) = 3
  /\ \E i \in DOMAIN logs : logs[i].error = "429"
  /\ last_error = "exception"
  /\ pc = "loop"

Terminal == {"served", "exhausted", "error"}

Stage ==
  CASE pc = "select" -> 8
    [] pc = "rawkey" -> 7
    [] pc = "invoke" -> 6
    [] pc = "record" -> 5
    [] pc = "health_ok" -> 4
    [] pc = "log_ok" -> 3
    [] pc = "fail_health" -> 2
    [] pc = "fail_log" -> 1
    [] OTHER -> 0

\* the steps a run can still take: whole iterations left, then the rest of the
\* current one
Rank ==
  IF pc \in Terminal THEN 0 ELSE (max_attempts + 1 - total_attempts) * 9 + Stage

Failed429(M) ==
  {logs[i].key_hash : i \in {j \in DOMAIN logs : logs[j].model = M /\ logs[j].error = "429"}}

\* C3 (model-wide blocking): once two distinct credentials have failed with 429
\* on model M within a request, M is in blocked_models for as long as the
\* request runs and no later attempt of that request is made on M.
C3_ModelWideBlocking ==
  \A M \in ALL_MODELS_SET :
    (Cardinality(Failed429(M)) >= 2 /\ pc /= "error") =>
      /\ M \in blocked_models
      /\ (pc /= "loop" /\ selected /= NoPair) => selected[2] /= M

\* Two credentials answered 429 on pro, a third one advertises pro and was not
\* tried on it, and the next attempt has been routed.
C3_Witness ==
  /\ Cardinality(Failed429(GEMINI_25_PRO)) = 2
  /\ pc = "rawkey"
  /\ \E kh \in DOMAIN apikeys :
       /\ apikeys[kh].is_active
       /\ GEMINI_25_PRO \in apikeys[kh].available_models
       /\ <<kh, GEMINI_25_PRO>> \notin failed_pairs

\* C4 (health update law): update_health on a stored credential sets, on
\* success, health' = min(100, health + 5) and consecutive_errors' = 0, and on
\* failure health' = max(0, health - 10) and consecutive_errors' =
\* consecutive_errors + 1; the active flag only ever goes from true to false,
\* and only on a failure; every other field and every other credential is left
\* as it was.
C4_HealthUpdateLaw ==
  [][\A kh \in DOMAIN apikeys : \A success \in BOOLEAN :
       op' = <<"update_health", kh, success>> =>
         LET old == apikeys[kh]
             new == apikeys'[kh]
         IN /\ DOMAIN apikeys' = DOMAIN apikeys
            /\ \A other \in DOMAIN apikeys \ {kh} : apikeys'[other] = apikeys[other]
            /\ new.email = old.email
            /\ new.available_models = old.available_models
            /\ success =>
                 /\ new.health_score = (IF old.health_score + 5 > 100 THEN 100
                                        ELSE old.health_score + 5)
                 /\ new.consecutive_errors = 0
                 /\ new.is_active = old.is_active
            /\ ~success =>
                 /\ new.health_score = (IF old.health_score - 10 < 0 THEN 0
                                        ELSE old.health_score - 10)
                 /\ new.consecutive_errors = old.consecutive_errors + 1
                 /\ new.is_active => old.is_active]_vars

\* A failure was just recorded for a credential whose health was below 10: the
\* score stopped at 0 and the error count went on.
C4_Witness ==
  /\ op = <<"update_health", RegistryTarget, FALSE>>
  /\ RegistryTarget \in DOMAIN apikeys
  /\ apikeys[RegistryTarget].health_score = 0
  /\ apikeys[RegistryTarget].consecutive_errors = 2
  /\ apikeys[RegistryTarget].is_active

\* the calls made so far contain n failures in a row
FailureRun(n) ==
  \E i \in 1..(Len(calls) - n + 1) : \A j \in i..(i + n - 1) : ~calls[j]

\* C5 (deactivation on sustained failure): a credential that starts active with
\* consecutive_errors = 0 is inactive, and out of the active-keys set, exactly
\* when the update_health calls made on it contain five failures in a row:
\* fewer keep it active and a success in between restarts the count.
C5_DeactivationAfterFive ==
  /\ apikeys[RegistryTarget].is_active <=> ~FailureRun(5)
  /\ RegistryTarget \in active_keys <=> ~FailureRun(5)

\* Six failures did not disable the credential because a success came in
\* between them.
C5_Witness ==
  /\ Cardinality({i \in DOMAIN calls : ~calls[i]}) = 6
  /\ FailureRun(4)
  /\ apikeys[RegistryTarget].is_active

\* C6 (no inactive credential is routed): whenever select_best_key_and_model
\* returns a handle, the record of that handle in the credential set the router
\* read for this select has is_active = true.
C6_InactiveNeverRouted ==
  [][(pc = "select" /\ pc' = "rawkey") =>
       /\ selected'[1] \in DOMAIN all_keys
       /\ all_keys[selected'[1]].is_active]_vars

\* The router returned a pair while the store held a disabled credential that
\* advertises the model and was not excluded on it.
C6_Witness ==
  /\ pc = "rawkey"
  /\ \E kh \in DOMAIN apikeys :
       /\ ~apikeys[kh].is_active
       /\ selected[2] \in apikeys[kh].available_models
       /\ <<kh, selected[2]>> \notin failed_pairs
       /\ kh /= selected[1]

\* C7 (re-activation resets health): every step that takes a stored credential
\* from is_active = false to is_active = true leaves it with health_score = 100
\* and consecutive_errors = 0.
C7_ReactivationResets ==
  [][\A kh \in DOMAIN apikeys \cap DOMAIN apikeys' :
       (~apikeys[kh].is_active /\ apikeys'[kh].is_active) =>
         /\ apikeys'[kh].health_score = 100
         /\ apikeys'[kh].consecutive_errors = 0]_vars

\* the model passes the two model-level checks of the router
Candidate(m) ==
  /\ m \notin blocked_models
  /\ m \in DOMAIN MODEL_CAPABILITIES => required_caps \subseteq MODEL_CAPABILITIES[m]
  /\ m \notin DOMAIN MODEL_CAPABILITIES => required_caps = {}

\* the stored credential passes the per-credential checks of the router on m
Survivor(kh, m) ==
  /\ kh \in DOMAIN apikeys
  /\ apikeys[kh].is_active
  /\ m \in apikeys[kh].available_models
  /\ <<kh, m>> \notin failed_pairs
  /\ check_rate_limit(ratelimit, kh, m, estimated_tokens, now).can

CandidateOrder == build_model_order(preferred_model, required_caps)

\* C8 (router selection safety): when select_best_key_and_model returns
\* (handle, model), the model is not blocked, it has every required capability,
\* the credential is active, advertises the model and is not excluded on it, and
\* check_rate_limit lets the request through; and when no pair of a candidate
\* model and a credential satisfies all of this, AllKeysExhaustedError is raised
\* instead.
C8_SelectionSafety ==
  /\ pc = "rawkey" => (Candidate(selected[2]) /\ Survivor(selected[1], selected[2]))
  /\ pc \in {"rawkey", "exhausted"} =>
       (pc = "exhausted" <=>
          \A i \in DOMAIN CandidateOrder : \A kh \in DOMAIN apikeys :
            ~(Candidate(CandidateOrder[i]) /\ Survivor(kh, CandidateOrder[i])))

\* A pair was returned although an earlier model lacks the required capability,
\* another credential is disabled and a third pair is excluded.
C8_Witness ==
  /\ pc = "rawkey"
  /\ required_caps /= {}
  /\ \E i \in DOMAIN CandidateOrder : ~(required_caps \subseteq MODEL_CAPABILITIES[CandidateOrder[i]])
  /\ \E kh \in DOMAIN apikeys : ~apikeys[kh].is_active

ScoreOf(kh, m) == score(apikeys[kh].health_score, get_usage_stats(ratelimit, kh, m, now))

IndexOf(m) == CHOOSE i \in DOMAIN CandidateOrder : CandidateOrder[i] = m

\* C9 (preferred-model-first selection): the returned model is the earliest
\* model of the candidate ordering that has a surviving credential, and the
\* returned credential has the maximum score among that model's survivors.
C9_EarliestModelBestScore ==
  pc = "rawkey" =>
    /\ \A j \in DOMAIN CandidateOrder :
         j < IndexOf(selected[2]) =>
           \A kh \in DOMAIN apikeys :
             ~(Candidate(CandidateOrder[j]) /\ Survivor(kh, CandidateOrder[j]))
    /\ \A kh \in DOMAIN apikeys :
         Survivor(kh, selected[2]) => ScoreOf(kh, selected[2]) <= ScoreOf(selected[1], selected[2])

\* The preferred model was served by a credential of health 90 while a later
\* model has a survivor of health 100 without any usage, whose score is the
\* maximum a score can be.
C9_Witness ==
  /\ pc = "rawkey"
  /\ selected[2] = GEMINI_25_FLASH_LITE
  /\ apikeys[selected[1]].health_score = 90
  /\ \E kh \in DOMAIN apikeys :
       /\ Candidate(GEMINI_25_PRO) /\ Survivor(kh, GEMINI_25_PRO)
       /\ IndexOf(GEMINI_25_PRO) > IndexOf(GEMINI_25_FLASH_LITE)
       /\ apikeys[kh].health_score = 100
       /\ <<kh, GEMINI_25_PRO>> \notin DOMAIN ratelimit

\* C10 (score determinism): the pair a select returns is the one it returns on
\* the same store and the same arguments with the credential map listed in any
\* other order; among survivors of the returned model with equal scores the
\* order of the handles alone decides, and the greatest handle wins.
C10_OrderIndependent ==
  pc = "rawkey" =>
    /\ LET r == select_best_key_and_model(apikeys, AscendingOrder(DOMAIN apikeys),
                                          ratelimit, now, preferred_model,
                                          estimated_tokens, required_caps,
                                          failed_pairs, blocked_models)
       IN r.ok /\ selected = <<r.key_hash, r.model>>
    /\ \A kh \in DOMAIN apikeys :
         (Survivor(kh, selected[2]) /\ ScoreOf(kh, selected[2]) = ScoreOf(selected[1], selected[2]))
           => kh <= selected[1]

\* Two survivors tie on the score and the winner is the one that the credential
\* map lists later.
C10_Witness ==
  /\ pc = "rawkey"
  /\ \E kh \in DOMAIN apikeys :
       /\ kh /= selected[1]
       /\ Survivor(kh, selected[2])
       /\ ScoreOf(kh, selected[2]) = ScoreOf(selected[1], selected[2])
       /\ \E i, j \in DOMAIN apikeys_order :
            i < j /\ apikeys_order[i] = kh /\ apikeys_order[j] = selected[1]

\* the usage of kh on m is at most that of other in RPM, RPD and TPM and below
\* it in one of them
LowerUsage(kh, other, m) ==
  LET u == get_usage_stats(ratelimit, kh, m, now)
      v == get_usage_stats(ratelimit, other, m, now)
  IN /\ u.rpm_used <= v.rpm_used
     /\ u.rpd_used <= v.rpd_used
     /\ u.tpm_used <= v.tpm_used
     /\ (u.rpm_used < v.rpm_used \/ u.rpd_used < v.rpd_used \/ u.tpm_used < v.tpm_used)

\* C11 (capacity-aware routing): of two active credentials that advertise the
\* model, have equal health and both pass the rate check, the router returns the
\* one whose usage is lower or equal in each of RPM, RPD and TPM and strictly
\* lower in one of them.
C11_LowerUsageWins ==
  pc = "rawkey" =>
    \A A, B \in DOMAIN apikeys :
      (/\ A /= B
       /\ Survivor(A, selected[2]) /\ Survivor(B, selected[2])
       /\ apikeys[A].health_score = apikeys[B].health_score
       /\ LowerUsage(B, A, selected[2]))
        => selected[1] = B

\* The credential with the smaller handle, listed last, is returned because it
\* has used fewer tokens; in requests the two are level.
C11_Witness ==
  /\ pc = "rawkey"
  /\ selected[1] = CredA
  /\ apikeys_order = <<CredB, CredA>>
  /\ Survivor(CredB, selected[2])
  /\ LET u == get_usage_stats(ratelimit, CredA, selected[2], now)
         v == get_usage_stats(ratelimit, CredB, selected[2], now)
     IN u.rpm_used = v.rpm_used /\ u.rpd_used = v.rpd_used /\ u.tpm_used < v.tpm_used
        /\ u.rpm_used > 0

\* the priority list of the class of models the request needs
ClassList ==
  IF CAP_IMAGE_GENERATION \in required_caps THEN IMAGE_MODEL_PRIORITY
  ELSE IF CAP_EMBEDDING \in required_caps THEN <<GEMINI_EMBEDDING>>
  ELSE MODEL_PRIORITY

\* C12 (candidate model ordering): the candidate list of a select is a
\* permutation of the priority list of the required class (image, embedding or
\* text), with the preferred model in front when it is in the catalog and the
\* list unchanged when it is not; the model returned is one of that class list.
C12_CandidateOrder ==
  pc \in {"rawkey", "exhausted"} =>
    /\ Len(CandidateOrder) = Len(ClassList)
    /\ Range(CandidateOrder) = Range(ClassList)
    /\ preferred_model \in DOMAIN MODEL_RATE_LIMITS => CandidateOrder[1] = preferred_model
    /\ preferred_model \notin DOMAIN MODEL_RATE_LIMITS => CandidateOrder = ClassList
    /\ pc = "rawkey" => selected[2] \in Range(ClassList)

\* the stored window of the limiter's pair, EmptyRaw when the Redis key is absent
Stored == IF LimPair \in DOMAIN ratelimit THEN ratelimit[LimPair] ELSE EmptyRaw

Fresher(stamps, t) == SelectSeq(stamps, LAMBDA ts : ts > t - WINDOW_SECONDS)
FresherEntries(entries, t) == SelectSeq(entries, LAMBDA e : e.ts > t - WINDOW_SECONDS)
TokenSum(entries) == SumSeq([j \in DOMAIN entries |-> entries[j].count])

RpmExceeded == Len(Fresher(Stored.requests, now)) >= MODEL_RATE_LIMITS[LimModel].rpm
RpdExceeded ==
  /\ Stored.last_rpd_reset = today_pacific(now)
  /\ Stored.rpd_count >= MODEL_RATE_LIMITS[LimModel].rpd
TpmExceeded ==
  TokenSum(FresherEntries(Stored.tokens, now)) + estimated_tokens
    > MODEL_RATE_LIMITS[LimModel].tpm

\* C13: check_rate_limit on a catalogued model answers blocked exactly when the
\* requests of the last 60 s reach rpm, or the count of the current quota-zone
\* day reaches rpd, or the tokens of the last 60 s plus the estimate exceed tpm;
\* the reason is the first exceeded limit in the order RPM, RPD, TPM.  On a
\* model outside the catalogue it always answers blocked.
C13_CheckDecision ==
  op[1] = "check_rate_limit" =>
    IF op[2] \notin DOMAIN MODEL_RATE_LIMITS THEN op[3] = FALSE
    ELSE /\ op[3] = ~(RpmExceeded \/ RpdExceeded \/ TpmExceeded)
         /\ op[4] = (IF RpmExceeded THEN "RPM"
                     ELSE IF RpdExceeded THEN "RPD"
                     ELSE IF TpmExceeded THEN "TPM" ELSE "None")

\* a check that found the per-minute and the daily limit both exceeded
C13_Witness ==
  /\ op[1] = "check_rate_limit"
  /\ op[2] = LimModel
  /\ op[3] = FALSE
  /\ RpmExceeded
  /\ RpdExceeded

DateDiffers == Stored.last_rpd_reset /= today_pacific(now)

\* C14: a call that finds a stored last_rpd_reset other than the current
\* quota-zone date counts the day from 0: check_rate_limit does not answer
\* RPD, get_usage_stats reports rpd_used = 0, record_request stores
\* rpd_count = 1 with the current date; reset_rpd_all may or may not have run.
C14_DailyBoundary ==
  [][DateDiffers =>
       /\ op'[1] = "check_rate_limit" /\ op'[2] = LimModel => op'[4] /= "RPD"
       /\ op'[1] = "get_usage_stats" => op'[2].rpd_used = 0
       /\ op'[1] = "record_request" =>
            /\ ratelimit'[LimPair].rpd_count = 1
            /\ ratelimit'[LimPair].last_rpd_reset = today_pacific(now)]_vars

\* a check passes on a window whose stored count of the day before is at the limit
C14_Witness ==
  /\ op[1] = "check_rate_limit"
  /\ op[2] = LimModel
  /\ op[3] = TRUE
  /\ DateDiffers
  /\ Stored.rpd_count >= MODEL_RATE_LIMITS[LimModel].rpd

\* C15: cleanup_old_data on a stored window leaves exactly the request
\* timestamps and token entries newer than now - 60, in their order, and leaves
\* rpd_count and last_rpd_reset as they were; on a window that is not stored it
\* changes nothing, in particular it creates no window.
C15_CleanupFrame ==
  [][op'[1] = "cleanup_old_data" =>
       LET pair == <<LimKey, op'[2]>> IN
       IF pair \in DOMAIN ratelimit
       THEN /\ DOMAIN ratelimit' = DOMAIN ratelimit
            /\ \A w \in DOMAIN ratelimit \ {pair} : ratelimit'[w] = ratelimit[w]
            /\ \A j \in DOMAIN ratelimit'[pair].requests :
                 ratelimit'[pair].requests[j] > now - WINDOW_SECONDS
            /\ \A j \in DOMAIN ratelimit'[pair].tokens :
                 ratelimit'[pair].tokens[j].ts > now - WINDOW_SECONDS
            /\ ratelimit'[pair].requests = Fresher(ratelimit[pair].requests, now)
            /\ ratelimit'[pair].tokens = FresherEntries(ratelimit[pair].tokens, now)
            /\ ratelimit'[pair].rpd_count = ratelimit[pair].rpd_count
            /\ ratelimit'[pair].last_rpd_reset = ratelimit[pair].last_rpd_reset
       ELSE ratelimit' = ratelimit]_vars

\* a cleanup has dropped some of the day's entries and kept the others
C15_Witness ==
  /\ op = <<"cleanup_old_data", LimModel>>
  /\ LimPair \in DOMAIN ratelimit
  /\ Stored.last_rpd_reset = today_pacific(now)
  /\ Len(Stored.requests) > 0
  /\ Len(Stored.requests) < Stored.rpd_count
  /\ Len(Stored.tokens) = Len(Stored.requests)

\* the positions of the records in the history of the window
Records == {j \in DOMAIN history : history[j].kind = "record"}

\* the records of the 60 seconds that end at t
RecordedWithin(t) == {j \in Records : history[j].ts > t - WINDOW_SECONDS /\ history[j].ts <= t}

\* the instants and the quota-zone days at which something was recorded
RecordStamps == {history[j].ts : j \in Records}
RecordDays == {today_pacific(t) : t \in RecordStamps}

RpmKept == \A t \in RecordStamps : Cardinality(RecordedWithin(t)) <= LimLimits.rpm

RpdKept ==
  \A d \in RecordDays :
    Cardinality({j \in Records : today_pacific(history[j].ts) = d}) <= LimLimits.rpd

\* C16: when every record_request on a window follows a check_rate_limit that
\* passed, with no other record on the window in between, no 60 seconds hold
\* more than rpm records and no quota-zone day holds more than rpd records.
C16_RpmRpdEnforced == RpmKept /\ RpdKept

\* the tokens recorded in the 60 seconds that end at t
TokensWithin(t) ==
  LET js == RecordedWithin(t)
      RECURSIVE Total(_)
      Total(S) == IF S = {} THEN 0
                  ELSE LET j == CHOOSE x \in S : TRUE IN history[j].tokens + Total(S \ {j})
  IN Total(js)

\* the largest amount by which a request recorded in those 60 seconds used more
\* tokens than its estimate, 0 when none did
LargestExcess(t) ==
  LET over == {history[j].tokens - estimated_tokens : j \in RecordedWithin(t)} \cup {0}
  IN CHOOSE x \in over : \A y \in over : y <= x

Unrecorded == {i \in DOMAIN tasks : tasks[i].pc \in {"invoked", "read"}}

\* the instants at which an upstream call returned
CallStamps == {history[j].called : j \in Records} \cup {tasks[i].called : i \in Unrecorded}

\* the number of upstream calls that returned in the 60 seconds that end at t
CallsWithin(t) ==
  Cardinality({j \in Records : history[j].called > t - WINDOW_SECONDS /\ history[j].called <= t})
  + Cardinality({i \in Unrecorded : tasks[i].called > t - WINDOW_SECONDS /\ tasks[i].called <= t})

Penalised(key_hash) ==
  LET before == apikeys[key_hash]
      after == apikeys'[key_hash]
      off == before.consecutive_errors + 1 >= HEALTH_CONSECUTIVE_ERROR_DISABLE
  IN /\ DOMAIN apikeys' = DOMAIN apikeys
     /\ \A kh \in DOMAIN apikeys \ {key_hash} : apikeys'[kh] = apikeys[kh]
     /\ after.health_score = Max(0, before.health_score + HEALTH_SCORE_FAILURE_DELTA)
     /\ after.consecutive_errors = before.consecutive_errors + 1
     /\ after.is_active = (before.is_active /\ ~off)
     /\ active_keys' = IF off THEN active_keys \ {key_hash} ELSE active_keys

\* generate_content raises in this step, and the handler notes the error
AttemptFails(error) == pc = "invoke" /\ selected \in failed_pairs' /\ last_error' = error

\* C19: an attempt that fails with status 429 leaves health score,
\* consecutive-error count and active flag of every credential as they were,
\* up to the next loop iteration; an attempt that fails with another upstream
\* status is followed by exactly one update_health(key_hash, success=False) on
\* the credential tried, and by no other change of the registry.
C19_FailureClassification ==
  [][/\ AttemptFails("429") \/ AttemptFails("other") => UNCHANGED <<apikeys, active_keys>>
     /\ AttemptFails("other") => pc' = "fail_health"
     /\ pc = "fail_health" /\ pc' = "fail_log" =>
          /\ last_error = "other"
          /\ op' = <<"update_health", selected[1], FALSE>>
          /\ Penalised(selected[1])
     /\ pc = "fail_log" /\ pc' = "loop" => UNCHANGED <<apikeys, active_keys>>]_vars

\* one credential answered 429 and kept its full health; another answered with
\* another status and has just been penalised
C19_Witness ==
  /\ pc = "fail_log"
  /\ last_error = "other"
  /\ op = <<"update_health", selected[1], FALSE>>
  /\ \E i \in DOMAIN logs :
       /\ logs[i].error = "429"
       /\ logs[i].key_hash /= selected[1]
       /\ apikeys[logs[i].key_hash].health_score = HEALTH_SCORE_MAX
       /\ apikeys[logs[i].key_hash].consecutive_errors = 0

\* C20: an attempt that fails with an exception that is not an upstream status
\* error (transport fault, timeout) has, when the loop takes its next pair,
\* cost the credential tried one update_health(key_hash, success=False).
C20_TransportFaultPenalised ==
  [][AttemptFails("exception") /\ pc' = "loop" => Penalised(selected[1])]_vars

\* the rate windows record_request wrote during this request (the store of
\* rate windows is empty when the request starts)
WindowsRecorded == {w \in DOMAIN ratelimit : ratelimit[w].requests /= <<>>}

\* the number of record_request calls this request completed
RecordsMade == Cardinality(WindowsRecorded)

\* the attempts of this request that ended as failed attempts
FailedAttempts == failed_pairs

\* C21, as stated (per-attempt ordering and record-on-success): a rate window
\* changes only in the record_request step that follows a successful invoke of
\* the selected pair and precedes update_health(success=True); a pair whose
\* attempt failed has no record in its rate window; and one request performs
\* at most one record_request.
C21_RecordOnSuccess ==
  /\ [][ratelimit' /= ratelimit =>
          /\ pc = "record" /\ pc' = "health_ok"
          /\ invoked /= <<>> /\ invoked[Len(invoked)] = selected
          /\ returned[Len(returned)] = selected]_vars
  /\ [](\A w \in WindowsRecorded : Len(ratelimit[w].requests) = 1)
  /\ [](WindowsRecorded \cap FailedAttempts = {})
  /\ [](RecordsMade <= 1)

\* the part of C21 that the code keeps: record_request runs only after a
\* successful invoke of the selected pair, once per attempt
C21_RecordFollowsInvoke ==
  /\ [][ratelimit' /= ratelimit =>
          /\ pc = "record" /\ pc' = "health_ok"
          /\ invoked /= <<>> /\ invoked[Len(invoked)] = selected
          /\ returned[Len(returned)] = selected]_vars
  /\ [](\A w \in WindowsRecorded : Len(ratelimit[w].requests) = 1)

\* the advertised model set of a stored credential
Advertised(ak, key_hash) == ak[key_hash].available_models

ViablePair ==
  \E i \in DOMAIN CandidateOrder : \E kh \in DOMAIN apikeys :
    Candidate(CandidateOrder[i]) /\ Survivor(kh, CandidateOrder[i])

\* C24, as stated (attempt-level errors do not surface while alternatives
\* remain): a chat request is in the Exhausted (HTTP 429) outcome only in a
\* state where the router finds no active, advertised, non-excluded,
\* non-blocked, non-rate-limited pair.
C24_ExhaustedOnlyWithoutPairs == pc = "exhausted" => ~ViablePair

\* C24, amended: the request is in the Exhausted outcome only when the router
\* finds no viable pair or when max_attempts attempts have been made; below
\* that cap a failed attempt is followed by the next select, and a select that
\* has a viable pair returns one (or ends with the error of its store read).
C24_ExhaustedOnlyWithoutPairsOrCapped ==
  /\ [](pc = "exhausted" => (~ViablePair \/ total_attempts = max_attempts))
  /\ [][(pc = "loop" /\ total_attempts < max_attempts) => pc' = "select"]_vars
  /\ [][(pc = "select" /\ ViablePair) => pc' \in {"rawkey", "error"}]_vars
  /\ [][(pc \in {"rawkey", "invoke", "fail_log"} /\ pc' \notin {"invoke", "record", "fail_health", "fail_log", "error"})
          => pc' = "loop"]_vars

\* After an attempt that failed upstream and was logged, the router has
\* returned another pair while further pairs remain.
C24_Witness ==
  /\ pc = "rawkey"
  /\ logs /= <<>> /\ ~logs[Len(logs)].success
  /\ selected \notin failed_pairs
  /\ total_attempts < max_attempts
  /\ ViablePair

\* an embedding-capable pair other than the selected one that the router
\* would accept: active, advertising the embedding model, within its limits
EmbedAlternative ==
  \E kh \in DOMAIN apikeys :
    /\ selected /= NoPair /\ kh /= selected[1]
    /\ apikeys[kh].is_active
    /\ GEMINI_EMBEDDING \in apikeys[kh].available_models
    /\ check_rate_limit(ratelimit, kh, GEMINI_EMBEDDING, estimated_tokens, now).can

\* C25, as stated (embedding requests use the fallback loop): an upstream
\* failure on the selected pair is followed by a retry against an alternative
\* embedding-capable pair, so the client sees an upstream error only when no
\* such pair remains, and no request ends after a single select while an
\* alternative exists.
C25_EmbeddingFallback ==
  (pc \in {"embed_502", "embed_500"} /\ invoked /= <<>>) => ~EmbedAlternative

\* the program points at which the request awaits a store call
StorePoints == {"select", "rawkey", "record", "health_ok", "log_ok", "fail_health", "fail_log"}

\* the program points that follow a store call that returned
AfterStoreCall(at) ==
  CASE at = "select" -> {"rawkey", "exhausted"}
    [] at = "rawkey" -> {"invoke", "loop"}
    [] at = "record" -> {"health_ok"}
    [] at = "health_ok" -> {"log_ok"}
    [] at = "log_ok" -> {"served"}
    [] at = "fail_health" -> {"fail_log"}
    [] at = "fail_log" -> {"loop"}

\* C26, as stated (store failure terminates the request): at every step of an
\* attempt that awaits a store call (select, raw-token fetch, record_request,
\* update_health, log append) the call either returns, and the request moves
\* to the next step, or it fails, and then request handling terminates with an
\* error: no further select or upstream attempt is made.
C26_StoreFailureTerminates ==
  [][(pc \in StorePoints) => (pc' \in AfterStoreCall(pc) \cup {"error"})]_vars

\* C27, as stated (one log entry per attempt): when the request has ended,
\* served or exhausted, the number of RequestLogEntry records appended for it
\* equals the number of attempts that selected a pair, whatever made an
\* attempt fail (429, another upstream status, a transport or unknown
\* exception, a missing raw token).
C27_OneLogPerAttempt == pc \in {"served", "exhausted"} => Len(logs) = Len(returned)

\* the log entry of the successful attempt
ServedEntry == logs[Len(logs)]

\* C28 (fallback depth): the fallback_count reported with a successful result
\* (log entry and metadata carry the same value) equals the number of failed
\* attempts that preceded the successful one within the request: every pair
\* returned before, each of them excluded since; it is 0 for a first-try
\* success.
C28_FallbackDepth ==
  pc = "served" =>
    /\ ServedEntry.success
    /\ ServedEntry.key_hash = selected[1] /\ ServedEntry.model = selected[2]
    /\ ServedEntry.fallback_count = Cardinality(failed_pairs)
    /\ ServedEntry.fallback_count = Len(returned) - 1
    /\ failed_pairs = {returned[i] : i \in 1..(Len(returned) - 1)}
    /\ (failed_pairs = {} => ServedEntry.fallback_count = 0)

\* A request served at its fourth attempt, after a 429, another upstream
\* status and an attempt that left no log entry.
C28_Witness ==
  /\ pc = "served"
  /\ ServedEntry.fallback_count = 3
  /\ Len(logs) = 3
  /\ \E i, j \in DOMAIN logs : logs[i].error = "429" /\ logs[j].error = "other"

\* the monitor runs: start() was called and stop() was not called since
MonitorRunning == tasks /= <<>> /\ \A i \in DOMAIN tasks : ~tasks[i].cancel

\* stop() has cancelled the tasks and its gather has not returned yet
MonitorStopping == tasks /= <<>> /\ \A i \in DOMAIN tasks : tasks[i].cancel

\* C29 (background loop isolation): an exception raised inside an iteration of
\* one of the four monitor loops leaves the task of that loop at its next
\* sleep and changes the task of no other loop; a loop task exits only when
\* it was cancelled; a loop whose iteration failed runs its next iteration
\* (unless stop() intervenes); and once stop() has cancelled the tasks every
\* loop exits and stop() returns with _tasks cleared.
C29_LoopIsolation ==
  /\ [][\A i \in DOMAIN LoopNames :
          (op' = <<"loop_error", LoopNames[i]>>) =>
            /\ tasks'[i].pc = "sleep"
            /\ \A j \in DOMAIN LoopNames \ {i} : tasks'[j] = tasks[j]]_vars
  /\ [](\A i \in DOMAIN tasks : tasks[i].pc = "exited" => tasks[i].cancel)
  /\ \A i \in DOMAIN LoopNames :
       (MonitorRunning /\ op = <<"loop_error", LoopNames[i]>>)
         ~> (MonitorStopping \/ (tasks /= <<>> /\ tasks[i].pc = "run"))
  /\ MonitorStopping ~> (tasks = <<>>)

\* an iteration of one loop has just failed while another loop is in its body
C29_Witness ==
  /\ MonitorRunning
  /\ \E i \in DOMAIN LoopNames :
       /\ op = <<"loop_error", LoopNames[i]>>
       /\ tasks[i].pc = "sleep"
       /\ \E j \in DOMAIN LoopNames \ {i} : tasks[j].pc = "run"

\* a disabled credential whose raw token is stored and for which the upstream
\* answers 200 on one of its advertised models
Recoverable(kh) ==
  /\ kh \in DOMAIN apikeys
  /\ ~apikeys[kh].is_active
  /\ kh \in plainkeys
  /\ \E model \in apikeys[kh].available_models : <<kh, model>> \in probe_ok

\* every probe the recovery loop makes for the credential fails (it has no
\* raw token to probe with, or no probed model answers 200)
ProbesFail(kh) ==
  \/ kh \notin plainkeys
  \/ LET probed == IF apikeys[kh].available_models = {}
                   THEN {MODEL_PRIORITY[1], MODEL_PRIORITY[2]}
                   ELSE apikeys[kh].available_models
     IN \A model \in probed : <<kh, model>> \notin probe_ok

\* C30 (auto-recovery liveness): while the monitor runs, a disabled credential
\* whose raw token is stored and whose probe succeeds for one of its
\* advertised models eventually is active again (is_active and in the active
\* set), the recovery loop being scheduled fairly; and no step of the monitor
\* activates a disabled credential whose probes all fail.
C30_AutoRecovery ==
  /\ \A kh \in Handles :
       (MonitorRunning /\ Recoverable(kh))
         ~> (~MonitorRunning \/ (apikeys[kh].is_active /\ kh \in active_keys))
  /\ [][\A kh \in DOMAIN apikeys :
          (~apikeys[kh].is_active /\ ProbesFail(kh)) =>
            (~apikeys'[kh].is_active /\ kh \notin active_keys')]_vars

\* an iteration of the recovery loop has just reactivated a credential
C30_Witness ==
  /\ op[1] = "iteration"
  /\ op[2] = "health_check"
  /\ op[3] /= {}
  /\ \A kh \in op[3] : apikeys[kh].is_active /\ kh \in active_keys /\ kh \in plainkeys

\* the last step was an iteration of the re-detect loop
Redetected == op[1] = "iteration" /\ op[2] = "model_redetect"

\* C31 (model re-detection replaces): after an iteration of the re-detect loop
\* every active credential whose raw token is stored and for whose token
\* models.list returned a list advertises exactly the models of that list
\* that are in the known catalog, also when there is none.
C31_RedetectReplaces ==
  Redetected =>
    \A kh \in DOMAIN apikeys :
      (apikeys[kh].is_active /\ kh \in plainkeys /\ op[3][kh] /= {}) =>
        apikeys[kh].available_models = op[3][kh] \cap ALL_MODELS_SET

\* the positions in the history of the resets of this run of the monitor
Resets == {j \in DOMAIN history : history[j].kind = "reset"}

\* the step is a poll of the daily reset loop that ran to its end
ResetPoll == op'[1] = "iteration" /\ op'[2] = "rpd_reset"

\* C32 (daily reset loop): every reset_rpd_all the monitor invoked was at
\* 00:00 or 00:01 of the quota zone; no two of its successful resets are on
\* the same quota-zone date; a poll inside that window on a date this run has
\* not reset on yet (there was no poll, or the reset raised) invokes
\* reset_rpd_all, and a poll on a date already reset on or outside the window
\* does not; and a reset leaves every rate-window record with rpd_count = 0
\* and its other fields as they were.
C32_DailyReset ==
  /\ [](\A j \in Resets : ResetMinute(history[j].ts))
  /\ [](\A j, k \in Resets :
          today_pacific(history[j].ts) = today_pacific(history[k].ts) => j = k)
  /\ [][ResetPoll => (op'[3] <=> (ResetMinute(now) /\ ~ResetDone(history, now)))]_vars
  /\ [][(ResetPoll /\ op'[3]) =>
          /\ DOMAIN ratelimit' = DOMAIN ratelimit
          /\ \A w \in DOMAIN ratelimit :
               ratelimit'[w] = [ratelimit[w] EXCEPT !.rpd_count = 0]]_vars

\* the run has reset on two dates, and a further poll inside the window of
\* the second date has not reset again
C32_Witness ==
  /\ op = <<"iteration", "rpd_reset", FALSE>>
  /\ ResetMinute(now)
  /\ ResetDone(history, now)
  /\ Len(history) = 2
  /\ tasks[LoopOf("rpd_reset")].last_reset_date = today_pacific(now)

\* no call of the registry is under way
Quiescent == \A i \in DOMAIN tasks : tasks[i].pc \in {"idle", "done"}

\* C33 (active flag and active set agree): whenever no registry call is under
\* way, after any interleaving of add_api_key, update_health, update_models,
\* reactivate_key and remove_api_key on one handle, a handle is a member of
\* the active-keys set exactly if its record exists with is_active = true.
C33_ActiveSetAgrees ==
  Quiescent =>
    \A kh \in Handles :
      kh \in active_keys <=> (kh \in DOMAIN apikeys /\ apikeys[kh].is_active)

\* every caller has called update_health(success=False) and has returned
AllFailuresDone ==
  \A i \in DOMAIN tasks :
    tasks[i].call = "update_health" /\ ~tasks[i].success /\ tasks[i].pc = "done"

\* C36 (no lost health updates): when all the concurrent callers have
\* completed update_health(success=False) on the credential, its
\* consecutive_errors has grown by the number of callers and its health has
\* dropped by 10 per caller (not below 0), under every interleaving of their
\* store commands.
C36_NoLostHealthUpdate ==
  AllFailuresDone =>
    /\ apikeys[RegistryTarget].consecutive_errors = RegInitial.consecutive_errors + NumCallers
    /\ apikeys[RegistryTarget].health_score =
         Max(0, RegInitial.health_score + NumCallers * HEALTH_SCORE_FAILURE_DELTA)

\* C37 (a removed credential stays removed): once a remove_api_key on the
\* handle has completed and no caller has called add_api_key, the handle has
\* no record, whatever update_health, update_models or reactivate_key was
\* under way on it.
C37_RemovedStaysRemoved ==
  (/\ \E i \in DOMAIN tasks : tasks[i].call = "remove_api_key" /\ tasks[i].pc = "done"
   /\ \A j \in DOMAIN tasks : tasks[j].call /= "add_api_key")
    => RegistryTarget \notin DOMAIN apikeys

\* C39 (health range invariant): every stored credential has a health_score
\* between 0 and 100 and a consecutive_errors of at least 0, after any
\* sequence of add_api_key, update_health, reactivate_key, update_models (and
\* remove_api_key); and an add_api_key of a credential that was not stored
\* stores it with health_score = 100, consecutive_errors = 0 and
\* is_active = true and puts it into the active set.
C39_HealthRange ==
  /\ [](\A kh \in DOMAIN apikeys :
          /\ apikeys[kh].health_score >= 0
          /\ apikeys[kh].health_score <= 100
          /\ apikeys[kh].consecutive_errors >= 0)
  /\ [][(op'[1] = "add_api_key" /\ op'[2] \notin DOMAIN apikeys) =>
          /\ op'[2] \in DOMAIN apikeys'
          /\ apikeys'[op'[2]].health_score = 100
          /\ apikeys'[op'[2]].consecutive_errors = 0
          /\ apikeys'[op'[2]].is_active
          /\ op'[2] \in active_keys']_vars

\* failures have brought the health of a credential down to the floor
C39_Witness ==
  /\ op = <<"update_health", RegistryTarget, FALSE>>
  /\ RegistryTarget \in DOMAIN apikeys
  /\ apikeys[RegistryTarget].health_score = 0

\* C34 (a model is blocked on the evidence of two credentials): a step of a
\* request that puts model M into blocked_models is a 429 answer of the
\* upstream to an attempt on M, and another credential has failed with 429 on
\* M earlier in the same request; no other failure and no single credential
\* blocks a model.
C34_BlockedOnTwoCredentials ==
  [][\A M \in ALL_MODELS_SET :
       (M \notin blocked_models /\ M \in blocked_models') =>
         /\ pc = "invoke"
         /\ selected[2] = M
         /\ last_error' = "429"
         /\ \E kh \in Failed429(M) : kh /= selected[1]]_vars

\* pro has just been blocked by the 429 of a third credential, after one
\* credential failed on it with another status and one with 429
C34_Witness ==
  /\ pc = "fail_log"
  /\ last_error = "429"
  /\ GEMINI_25_PRO \in blocked_models
  /\ selected[2] = GEMINI_25_PRO
  /\ Cardinality(Failed429(GEMINI_25_PRO)) = 1
  /\ \E j \in DOMAIN logs : logs[j].model = GEMINI_25_PRO /\ logs[j].error = "other"

\* the program points between a successful generate_content and the return
\* of its result
AfterSuccess == {"record", "health_ok", "log_ok"}

\* C35 (a successful upstream response is always served): once
\* generate_content has returned a result the request goes through its
\* bookkeeping to the return of that result; it selects no other pair and
\* invokes the upstream no more, also when record_request, update_health or
\* log_request raises.
C35_SuccessIsServed ==
  [][(pc \in AfterSuccess) =>
       /\ pc' \in AfterSuccess \cup {"served"}
       /\ invoked' = invoked
       /\ selected' = selected
       /\ failed_pairs' = failed_pairs]_vars

\* no record_request and no cleanup_old_data is between its read and its write
WindowQuiet == \A i \in DOMAIN tasks : tasks[i].pc \notin {"read", "cleanup"}

\* C38 (no lost rate records under cleanup): whenever no call on the window
\* is between its read and its write, every record_request made in the last
\* 60 seconds has its timestamp and its token entry in the stored window, and
\* as many entries are stored as records were made in those 60 seconds,
\* however the record_request calls interleaved with cleanup_old_data and
\* with each other.
C38_NoLostRecord ==
  WindowQuiet =>
    /\ \A j \in RecordedWithin(now) :
         /\ \E k \in DOMAIN Stored.requests : Stored.requests[k] = history[j].ts
         /\ \E k \in DOMAIN Stored.tokens :
              Stored.tokens[k] = [ts |-> history[j].ts, count |-> history[j].tokens]
    /\ Len(Fresher(Stored.requests, now)) = Cardinality(RecordedWithin(now))
====
